---- MODULE Spec2Model ----
(***************************************************************************)
(* A model of the FITS I/O subsystem of lpranam/astronomy:                 *)
(*   - fits_stream   (byte stream with 2880-byte logical records)          *)
(*   - header / card (80-byte cards, BITPIX / NAXIS resolution)            *)
(*   - fits_io       (scan of a file into HDUs + control block, write_to)  *)
(*   - table HDUs, column_view / Proxy (write-through, read-memoized)      *)
(*                                                                         *)
(* Byte strings are kept run-length encoded: a byte string is a sequence   *)
(* of chunks, each chunk being n copies of one byte, or n copies of one    *)
(* 80-byte card, or n bytes cut out of a card's text.  Adjacent chunks of  *)
(* a byte string never hold the same byte or card, so two byte strings     *)
(* are equal as bytes iff they are equal as sequences.                     *)
(***************************************************************************)
EXTENDS Integers, Sequences, FiniteSets, TLC

\* ------------------------------------------------------------------ constants
logical_record_size == 2880
CardSize == 80
SP == 32
NUL == 0
EQ == 61
\* 2^64 modulo logical_record_size: std::size_t values of 2^63 and above are
\* written as negative integers (x stands for 2^64 + x)
SizeWrap == 2176

\* ------------------------------------------------------------------ bounds
\* how many times initialize() may be called on one reader
MaxInits == 2
\* length of a data block that spans whole records: MaxRecords * 2880 bytes
MaxRecords == 1

\* ------------------------------------------------------------------ chunks
ByteRun(b, n) ==
    [t |-> "byte", key |-> "", ty |-> "", s |-> "", i |-> b, o |-> 0, n |-> n]

Card(key, ty, s, i) ==
    [t |-> "card", key |-> key, ty |-> ty, s |-> s, i |-> i, o |-> 0, n |-> 1]

Cards(c, n) == [c EXCEPT !.n = n]

\* n bytes of the text of card c, starting at byte o of the card
CardPart(c, o, n) == [c EXCEPT !.t = "part", !.o = o, !.n = n]

ChunkSize(c) == IF c.t = "card" THEN c.n * CardSize ELSE c.n

RECURSIVE Size(_)
Size(f) == IF f = <<>> THEN 0 ELSE ChunkSize(Head(f)) + Size(Tail(f))

SameUnit(a, b) ==
    /\ a.t = b.t
    /\ a.t # "part"
    /\ a.key = b.key /\ a.ty = b.ty /\ a.s = b.s /\ a.i = b.i

\* concatenation: only the chunks at the seam can merge
Cat(a, b) ==
    IF a = <<>> THEN b
    ELSE IF b = <<>> THEN a
    ELSE IF SameUnit(a[Len(a)], b[1])
         THEN SubSeq(a, 1, Len(a) - 1) \o <<[b[1] EXCEPT !.n = @ + a[Len(a)].n]>> \o Tail(b)
         ELSE a \o b

\* a run of n bytes b (nothing when n = 0)
Fill(b, n) == IF n = 0 THEN <<>> ELSE <<ByteRun(b, n)>>

\* the bytes given one by one
RECURSIVE Bytes(_)
Bytes(bs) == IF bs = <<>> THEN <<>> ELSE Cat(<<ByteRun(Head(bs), 1)>>, Bytes(Tail(bs)))

\* chunk c without its first n bytes / cut down to its first n bytes
\* (0 < n < ChunkSize(c))
DropFromChunk(c, n) ==
    IF c.t = "card"
    THEN (IF n % CardSize = 0 THEN <<>>
          ELSE <<CardPart(Cards(c, 1), n % CardSize, CardSize - (n % CardSize))>>)
         \o (IF c.n * CardSize - n >= CardSize
             THEN <<Cards(c, (c.n * CardSize - n) \div CardSize)>> ELSE <<>>)
    ELSE IF c.t = "part"
         THEN <<[c EXCEPT !.o = @ + n, !.n = @ - n]>>
         ELSE <<[c EXCEPT !.n = @ - n]>>

TakeFromChunk(c, n) ==
    IF c.t = "card"
    THEN (IF n >= CardSize THEN <<Cards(c, n \div CardSize)>> ELSE <<>>)
         \o (IF n % CardSize = 0 THEN <<>>
             ELSE <<CardPart(Cards(c, 1), 0, n % CardSize)>>)
    ELSE <<[c EXCEPT !.n = n]>>

RECURSIVE Drop(_, _)
Drop(f, n) ==
    IF n = 0 \/ f = <<>> THEN f
    ELSE IF ChunkSize(Head(f)) <= n THEN Drop(Tail(f), n - ChunkSize(Head(f)))
         ELSE DropFromChunk(Head(f), n) \o Tail(f)

RECURSIVE Take(_, _)
Take(f, n) ==
    IF n = 0 \/ f = <<>> THEN <<>>
    ELSE IF ChunkSize(Head(f)) <= n
         THEN <<Head(f)>> \o Take(Tail(f), n - ChunkSize(Head(f)))
         ELSE TakeFromChunk(Head(f), n)

\* bytes [p, p+n) of f (fewer if f ends before p+n)
Slice(f, p, n) == Take(Drop(f, p), n)

\* TRUE iff every byte of f is the byte b
AllByte(f, b) == \A k \in 1..Len(f) : f[k].t = "byte" /\ f[k].i = b

\* the bytes of f one by one, -1 for a byte of card text (short strings only)
RECURSIVE Expand(_)
Expand(f) ==
    IF f = <<>> THEN <<>>
    ELSE [j \in 1..ChunkSize(Head(f)) |-> IF Head(f).t = "byte" THEN Head(f).i ELSE -1]
         \o Expand(Tail(f))

\* ------------------------------------------------------------------ fits_stream
\* the stream: get position and failbit.  eofbit is cleared by every seekg,
\* and inside the scan loops every at_end() call follows a seekg; a call that
\* finds eofbit still set by an earlier at_end() answers true again.
Stream(pos, fail) == [pos |-> pos, fail |-> fail]

\* tellg() of a failed stream is -1, as std::size_t 2^64 - 1
get_current_pos(st) == IF st.fail THEN -1 ELSE st.pos

set_reading_pos(st, position) == IF st.fail THEN st ELSE Stream(position, FALSE)

SizeMod(x, m) == IF x < 0 THEN ((x % m) + SizeWrap) % m ELSE x % m

find_unit_end(st) ==
    LET current_pos == get_current_pos(st)
        offset == logical_record_size - SizeMod(current_pos, logical_record_size)
        newpos == current_pos + offset
    IN newpos

set_unit_end(st) == set_reading_pos(st, find_unit_end(st))

\* read(num_bytes): always a string of num_bytes bytes, spaces where the file
\* gave nothing; failbit is set when the file ends before num_bytes bytes
read_data(f, st, num_bytes) ==
    IF st.fail THEN Fill(SP, num_bytes)
    ELSE LET padded(got) == Cat(got, Fill(SP, num_bytes - Size(got)))
         IN padded(Slice(f, st.pos, num_bytes))

read_stream(f, st, num_bytes) ==
    IF st.fail THEN st
    ELSE IF st.pos + num_bytes > Size(f) THEN Stream(st.pos, TRUE)
         ELSE Stream(st.pos + num_bytes, FALSE)

at_end(f, st) == ~st.fail /\ st.pos >= Size(f)

\* ------------------------------------------------------------------ cards in a header
CInt(key, v) == Card(key, "int", "", v)
CStr(key, s) == Card(key, "str", s, 0)
CBool(key, b) == Card(key, "bool", "", IF b THEN 1 ELSE 0)
CComment == Card("COMMENT", "text", "filler", 0)
CEnd == Card("END", "text", "", 0)

NaxisKey(i) == <<"NAXIS1", "NAXIS2", "NAXIS3">>[i]
TformKey(i) == <<"TFORM1", "TFORM2", "TFORM3">>[i]
TtypeKey(i) == <<"TTYPE1", "TTYPE2", "TTYPE3">>[i]
TbcolKey(i) == <<"TBCOL1", "TBCOL2", "TBCOL3">>[i]

IsSpace(b) == b \in {9, 10, 11, 12, 13, SP}

RECURSIVE TrimLeft(_)
TrimLeft(bs) == IF bs # <<>> /\ IsSpace(Head(bs)) THEN TrimLeft(Tail(bs)) ELSE bs

RECURSIVE TrimRight(_)
TrimRight(bs) ==
    IF bs # <<>> /\ IsSpace(bs[Len(bs)]) THEN TrimRight(SubSeq(bs, 1, Len(bs) - 1)) ELSE bs

\* boost::algorithm::trim_copy
TrimBytes(bs) == TrimRight(TrimLeft(bs))

\* text is a sequence of character codes
Spaces(n) == [j \in 1..n |-> SP]

KeyComment == <<67, 79, 77, 77, 69, 78, 84>>
KeyHistory == <<72, 73, 83, 84, 79, 82, 89>>
KeyEnd == <<69, 78, 68>>

\* substr(pos, count) of a text, for pos <= length
Substr(text, pos, count) ==
    SubSeq(text, pos + 1, IF pos + count > Len(text) THEN Len(text) ELSE pos + count)

\* card_policy::is_card_valid(fits_card) and its parts.  substr(8, 2) throws
\* std::out_of_range on a text shorter than 8
in_proper_format(fits_card) == Substr(fits_card, 8, 2) = <<EQ, SP>>
is_reserved_keyword(keyword) == keyword \in {KeyComment, KeyHistory, KeyEnd}
is_blank(fits_card) == Substr(fits_card, 0, 8) = Spaces(8)
is_card_valid_throws(fits_card) == Len(fits_card) <= 80 /\ Len(fits_card) < 8
is_card_valid(fits_card) ==
    /\ Len(fits_card) <= 80
    /\ \/ in_proper_format(fits_card)
       \/ is_reserved_keyword(TrimBytes(Substr(fits_card, 0, 7)))
       \/ is_blank(fits_card)

\* the keyword of a card read from raw bytes is END
IsRawEnd(raw) == TrimBytes(Expand(Slice(raw, 0, 8))) = KeyEnd

\* ------------------------------------------------------------------ header
\* read_header, lines 78-92: card by card until END.  Past the end of the file
\* every read(80) fails and yields 80 spaces, a valid blank card: the loop
\* never meets END ("diverged").  A run of equal cards, and a run of blank
\* cards, is taken in one step.
RECURSIVE ReadCards(_, _, _)
ReadCards(f, pos, acc) ==
    LET cards(c) ==
            IF c.key = "END"
            THEN [status |-> "ok", cards |-> Cat(acc, <<Cards(c, 1)>>), pos |-> pos + CardSize]
            ELSE ReadCards(f, pos + CardSize * c.n, Cat(acc, <<c>>))
        bytes(raw) ==
            IF ~is_card_valid(Expand(raw))
            THEN [status |-> "throw", cards |-> acc, pos |-> pos + CardSize]
            ELSE IF IsRawEnd(raw)
                 THEN [status |-> "ok", cards |-> Cat(acc, raw), pos |-> pos + CardSize]
                 ELSE ReadCards(f, pos + CardSize, Cat(acc, raw))
        blanks(n) == ReadCards(f, pos + CardSize * n, Cat(acc, Fill(SP, CardSize * n)))
        next(rest) ==
            IF Head(rest).t = "card" THEN cards(Head(rest))
            ELSE IF Head(rest).t = "byte" /\ Head(rest).i = SP /\ Head(rest).n >= CardSize
                 THEN blanks(Head(rest).n \div CardSize)
                 ELSE bytes(Take(rest, CardSize))
    IN IF pos >= Size(f) THEN [status |-> "diverged", cards |-> acc, pos |-> pos]
       ELSE next(Drop(f, pos))

\* key_index: the last card carrying the keyword; 0 when there is none
RECURSIVE KeyIndexFrom(_, _, _)
KeyIndexFrom(cards, key, k) ==
    IF k = 0 THEN 0
    ELSE IF cards[k].key = key THEN k ELSE KeyIndexFrom(cards, key, k - 1)

key_index(cards, key) == KeyIndexFrom(cards, key, Len(cards))

contains_keyword(hdr, key) == key_index(hdr.cards, key) # 0

\* key_index[key] (operator[]): a missing keyword is inserted with index 0,
\* the first card of the header
key_index_or_first(cards, key) ==
    LET first(k) == IF k = 0 THEN 1 ELSE k IN first(key_index(cards, key))

\* value<int>() / value<std::size_t>() / value<bool>() of a card: [ok, v]
value_int(c) == [ok |-> c.ty = "int", v |-> c.i]
value_size_t(c) == [ok |-> c.ty = "int" /\ c.i >= 0, v |-> c.i]
value_bool(c) == [ok |-> c.ty = "bool", v |-> c.i = 1]
value_string(c) == c.s

BitpixOf(v) ==
    CASE v = 8 -> "B8" [] v = 16 -> "B16" [] v = 32 -> "B32"
      [] v = -32 -> "_B32" [] v = -64 -> "_B64" [] OTHER -> "bad"

get_element_size_from_bitpix(bp) ==
    CASE bp = "B8" -> 1 [] bp = "B16" -> 2 [] bp = "B32" -> 4
      [] bp = "_B32" -> 4 [] bp = "_B64" -> 8 [] OTHER -> 0

\* read_header, lines 117-125: NAXISn for n = 1..NAXIS.  A card already
\* memoized as int (the BITPIX card) cannot be read back as size_t.
RECURSIVE ReadNaxis(_, _, _, _)
ReadNaxis(cards, bix, total, i) ==
    LET dims(k, rest) ==
            IF k = bix \/ ~value_size_t(cards[k]).ok \/ ~rest.ok
            THEN [ok |-> FALSE, naxis |-> <<>>]
            ELSE [ok |-> TRUE, naxis |-> <<value_size_t(cards[k]).v>> \o rest.naxis]
    IN IF i > total THEN [ok |-> TRUE, naxis |-> <<>>]
       ELSE IF i > 3 THEN [ok |-> FALSE, naxis |-> <<>>]
       ELSE dims(key_index_or_first(cards, NaxisKey(i)), ReadNaxis(cards, bix, total, i + 1))

NoHeader == [cards |-> <<>>, bitpix |-> "bad", naxis |-> <<>>]

\* read_header, lines 94-125, on the cards read: BITPIX, NAXIS, NAXISn
ResolveHeader(cards, bix, nix) ==
    LET bp == value_int(cards[bix])
        nx == value_size_t(cards[nix])
        resolved(dims) ==
            IF ~dims.ok THEN [ok |-> FALSE, hdr |-> NoHeader]
            ELSE [ok |-> TRUE,
                  hdr |-> [cards |-> cards, bitpix |-> BitpixOf(bp.v), naxis |-> dims.naxis]]
    IN IF ~bp.ok \/ BitpixOf(bp.v) = "bad" \/ nix = bix \/ ~nx.ok
       THEN [ok |-> FALSE, hdr |-> NoHeader]
       ELSE resolved(ReadNaxis(cards, bix, nx.v, 1))

\* header::read_header: [status, hdr, st]
read_header(f, st) ==
    LET parsed(rc, res) ==
            IF rc.status = "diverged"
            THEN [status |-> "diverged", hdr |-> NoHeader, st |-> Stream(st.pos, TRUE)]
            ELSE IF rc.status = "throw" \/ ~res.ok
                 THEN [status |-> "throw", hdr |-> NoHeader, st |-> Stream(rc.pos, FALSE)]
                 ELSE [status |-> "ok", hdr |-> res.hdr, st |-> Stream(rc.pos, FALSE)]
        resolve(rc) ==
            parsed(rc, IF rc.status # "ok" THEN [ok |-> FALSE, hdr |-> NoHeader]
                       ELSE ResolveHeader(rc.cards, key_index_or_first(rc.cards, "BITPIX"),
                                          key_index_or_first(rc.cards, "NAXIS")))
    IN IF st.fail THEN [status |-> "diverged", hdr |-> NoHeader, st |-> st]
       ELSE resolve(ReadCards(f, st.pos, <<>>))

RECURSIVE Product(_)
Product(xs) == IF xs = <<>> THEN 1 ELSE Head(xs) * Product(Tail(xs))

\* header::data_size
data_size(hdr) == IF hdr.naxis = <<>> THEN 0 ELSE Product(hdr.naxis)

\* header::get_hdu_name: [ok, name]
get_hdu_name(hdr) ==
    LET named(x, sx) ==
            IF x # 0 THEN [ok |-> TRUE, name |-> value_string(hdr.cards[x])]
            ELSE IF sx # 0 /\ value_bool(hdr.cards[sx]).ok
                 THEN [ok |-> TRUE, name |-> "primary_hdu"]
                 ELSE [ok |-> FALSE, name |-> ""]
    IN named(key_index(hdr.cards, "XTENSION"), key_index(hdr.cards, "SIMPLE"))

\* ------------------------------------------------------------------ image codec
RECURSIVE BigEndian(_)
BigEndian(bs) == IF bs = <<>> THEN 0 ELSE BigEndian(SubSeq(bs, 1, Len(bs) - 1)) * 256 + bs[Len(bs)]

\* big_to_native of the bytes read as a two's complement integer
element_to_numeric(bs) ==
    IF \E j \in 1..Len(bs) : bs[j] < 0 THEN -1
    ELSE BigEndian(<<IF bs[1] >= 128 THEN bs[1] - 256 ELSE bs[1]>> \o Tail(bs))

\* deserialize_to<underlying_type>: B8 pixels are int8_t, for which the
\* converter has no specialization: the primary template returns T()
deserialize_pixel(bp, bs) == IF bp = "B8" THEN 0 ELSE element_to_numeric(bs)

\* serialize: native_to_big of the k-byte two's complement representation
RECURSIVE serialize_numeric(_, _)
serialize_numeric(v, k) ==
    IF k = 0 THEN <<>> ELSE serialize_numeric(v \div 256, k - 1) \o <<v % 256>>

RECURSIVE Repeat(_, _)
Repeat(f, n) == IF n = 0 THEN <<>> ELSE Cat(f, Repeat(f, n - 1))

\* append n elements of value v to a run-length encoded image
PushElem(acc, v, n) ==
    IF acc # <<>> /\ acc[Len(acc)].v = v
    THEN [acc EXCEPT ![Len(acc)].n = @ + n]
    ELSE Append(acc, [v |-> v, n |-> n])

\* image::read_image, lines 198-213: data_buffer.size() / element_size
\* elements, each decoded from element_size bytes
RECURSIVE ReadElems(_, _, _, _)
ReadElems(acc, data, bp, k) ==
    LET run(c) ==
            ReadElems(PushElem(acc, deserialize_pixel(bp, [j \in 1..k |-> c.i]), c.n \div k),
                      Drop(data, (c.n \div k) * k), bp, k)
        one(bs) == ReadElems(PushElem(acc, deserialize_pixel(bp, bs), 1), Drop(data, k), bp, k)
    IN IF Size(data) < k THEN acc
       ELSE IF Head(data).t = "byte" /\ Head(data).n >= k THEN run(Head(data))
       ELSE one(Expand(Take(data, k)))

\* read_image that keeps no pixel
read_image_dropping(data_buffer, bp) == <<>>

read_image(data_buffer, bp) ==
    IF data_buffer = <<>> THEN <<>>
    ELSE ReadElems(<<>>, data_buffer, bp, get_element_size_from_bitpix(bp))

RECURSIVE ElemCount(_)
ElemCount(img) == IF img = <<>> THEN 0 ELSE Head(img).n + ElemCount(Tail(img))

\* image::write_image, lines 218-232
RECURSIVE write_image(_, _)
write_image(img, k) ==
    LET run(bs, n) ==
            IF \A j \in 1..Len(bs) : bs[j] = bs[1] THEN Fill(bs[1], k * n)
            ELSE Repeat(Bytes(bs), n)
    IN IF img = <<>> THEN <<>>
       ELSE Cat(run(serialize_numeric(Head(img).v, k), Head(img).n),
                write_image(Tail(img), k))

\* ------------------------------------------------------------------ table HDUs
\* TFORM values of the model's tables: binary <count><type>, ASCII <type><width>
BinaryForm(tform) ==
    CASE tform = "1I" -> [count |-> 1, type |-> "I"]
      [] tform = "2A" -> [count |-> 2, type |-> "A"]
      [] tform = "1J" -> [count |-> 1, type |-> "J"]
      [] OTHER -> [count |-> 1, type |-> "?"]

type_size(type) ==
    CASE type \in {"L", "X", "B", "A"} -> 1
      [] type = "I" -> 2
      [] type \in {"J", "E"} -> 4
      [] type \in {"D", "C", "P"} -> 8
      [] type = "M" -> 16
      [] OTHER -> -1

binary_column_size(tform) == BinaryForm(tform).count * type_size(BinaryForm(tform).type)

ascii_column_size(tform) ==
    CASE tform = "I3" -> 3 [] tform = "I2" -> 2 [] tform = "A2" -> 2 [] OTHER -> -1

column_size(ascii, tform) ==
    IF ascii THEN ascii_column_size(tform) ELSE binary_column_size(tform)

\* total_elements of a column: element_count(TFORM) in a binary table, 0 in
\* an ASCII table
Column(index, tform, tbcol, ttype, total) ==
    [index |-> index, TFORM |-> tform, TBCOL |-> tbcol, TTYPE |-> ttype,
     total_elements |-> total]

\* populate_column_data of both table kinds: [ok, cols]
RECURSIVE populate_column_data(_, _, _, _, _)
populate_column_data(cards, ascii, tfields, i, start) ==
    LET column(fx, bx, tx, rest) ==
            [ok |-> rest.ok,
             cols |-> <<Column(i, value_string(cards[fx]),
                               IF ascii THEN value_size_t(cards[bx]).v ELSE start,
                               IF tx = 0 THEN "" ELSE value_string(cards[tx]),
                               IF ascii THEN 0 ELSE BinaryForm(value_string(cards[fx])).count)>>
                       \o rest.cols]
        columns(fx, bx, tx) ==
            IF fx = 0 \/ (ascii /\ (bx = 0 \/ ~value_size_t(cards[bx]).ok))
               \/ (~ascii /\ binary_column_size(value_string(cards[fx])) < 0)
            THEN [ok |-> FALSE, cols |-> <<>>]
            ELSE column(fx, bx, tx,
                        populate_column_data(cards, ascii, tfields, i + 1,
                            start + column_size(ascii, value_string(cards[fx]))))
    IN IF i > tfields THEN [ok |-> TRUE, cols |-> <<>>]
       ELSE IF i > 3 THEN [ok |-> FALSE, cols |-> <<>>]
       ELSE columns(key_index(cards, TformKey(i)), key_index(cards, TbcolKey(i)),
                    key_index(cards, TtypeKey(i)))

\* byte offset of the c-th field inside a row of a binary table's buffer
RECURSIVE BinaryOffset(_, _)
BinaryOffset(cols, c) ==
    IF c = 1 THEN 0 ELSE BinaryOffset(cols, c - 1) + binary_column_size(cols[c - 1].TFORM)

\* set_table_data: tb_data[row][col] = trim_copy(field bytes).  The binary
\* table walks the buffer field by field; the ASCII table addresses each
\* field by row * NAXIS1 + TBCOL - 1.
set_table_data(hdr, ascii, cols, tfields, data_buffer) ==
    [r \in 1..hdr.naxis[2] |->
       [c \in 1..tfields |->
          TrimBytes(Expand(
              Slice(data_buffer,
                    IF ascii THEN (r - 1) * hdr.naxis[1] + cols[c].TBCOL - 1
                    ELSE (r - 1) * BinaryOffset(cols, tfields + 1) + BinaryOffset(cols, c),
                    column_size(ascii, cols[c].TFORM))))]]

EmptyHdu ==
    [variant |-> "blank", header |-> NoHeader, image |-> <<>>, tfields |-> 0,
     col_metadata |-> <<>>, tb_data |-> <<>>]

\* basic_primary_hdu(header, data_buffer): [ok, hdu]
generate_primary_hdu(hdr, data_buffer) ==
    LET primary(sx, ex) ==
            IF sx = 0 \/ ex = 0 \/ ~value_bool(hdr.cards[sx]).ok \/ ~value_bool(hdr.cards[ex]).ok
            THEN [ok |-> FALSE, hdu |-> EmptyHdu]
            ELSE [ok |-> TRUE,
                  hdu |-> [EmptyHdu EXCEPT !.variant = "primary", !.header = hdr,
                                           !.image = read_image(data_buffer, hdr.bitpix)]]
    IN primary(key_index(hdr.cards, "SIMPLE"), key_index(hdr.cards, "EXTEND"))

\* extension_hdu + table_extension + basic_{ascii,binary}_table constructors
generate_table(hdr, ascii, data_buffer) ==
    LET table(tfields, pc) ==
            IF ~pc.ok THEN [ok |-> FALSE, hdu |-> EmptyHdu]
            ELSE [ok |-> TRUE,
                  hdu |-> [EmptyHdu EXCEPT
                             !.variant = IF ascii THEN "ascii" ELSE "bintable",
                             !.header = hdr, !.tfields = tfields, !.col_metadata = pc.cols,
                             !.tb_data = IF data_buffer = <<>> THEN <<>>
                                         ELSE set_table_data(hdr, ascii, pc.cols, tfields,
                                                             data_buffer)]]
        extension(gx, px, nx, tx) ==
            IF gx = 0 \/ px = 0 \/ nx = 0 \/ tx = 0
               \/ ~value_int(hdr.cards[gx]).ok \/ ~value_int(hdr.cards[px]).ok
               \/ ~value_size_t(hdr.cards[tx]).ok
            THEN [ok |-> FALSE, hdu |-> EmptyHdu]
            ELSE table(value_size_t(hdr.cards[tx]).v,
                       populate_column_data(hdr.cards, ascii, value_size_t(hdr.cards[tx]).v, 1, 0))
    IN extension(key_index(hdr.cards, "GCOUNT"), key_index(hdr.cards, "PCOUNT"),
                 key_index(hdr.cards, "EXTNAME"), key_index(hdr.cards, "TFIELDS"))

generate_extension_hdu(hdr, data_buffer) ==
    LET extension(extension_name) ==
            IF extension_name = "TABLE" \/ extension_name = "BINTABLE"
            THEN generate_table(hdr, extension_name = "TABLE", data_buffer)
            ELSE [ok |-> TRUE, hdu |-> EmptyHdu]
    IN IF ~contains_keyword(hdr, "XTENSION") THEN [ok |-> FALSE, hdu |-> EmptyHdu]
       ELSE extension(value_string(hdr.cards[key_index(hdr.cards, "XTENSION")]))

\* construct_hdu that builds a primary HDU from every header
construct_hdu_primary_only(hdr, data_buffer) == generate_primary_hdu(hdr, data_buffer)

construct_hdu(hdr, data_buffer) ==
    IF contains_keyword(hdr, "SIMPLE") THEN generate_primary_hdu(hdr, data_buffer)
    ELSE generate_extension_hdu(hdr, data_buffer)

\* ------------------------------------------------------------------ files on disk
HeaderCards == logical_record_size \div CardSize

\* a header block: the cards, then blank fill to a whole number of records
HeaderBlock(cards) ==
    Cat(cards, Fill(SP, (logical_record_size - (Size(cards) % logical_record_size))
                        % logical_record_size))

\* a data block: the data, then fill bytes to a whole number of records
DataBlock(data, pad) ==
    Cat(data, Fill(pad, (logical_record_size - (Size(data) % logical_record_size))
                         % logical_record_size))

Hdu(cards, data, pad) == [cards |-> cards, data |-> data, pad |-> pad]

HduBytes(h) == Cat(HeaderBlock(h.cards), DataBlock(h.data, h.pad))

Filler(n) == IF n > 0 THEN <<Cards(CComment, n)>> ELSE <<>>

\* primary header of ncards cards (COMMENT cards make up the number)
PrimaryCards(bitpix, dims, ncards) ==
    <<CBool("SIMPLE", TRUE), CInt("BITPIX", bitpix), CInt("NAXIS", Len(dims))>>
    \o [i \in 1..Len(dims) |-> CInt(NaxisKey(i), dims[i])]
    \o <<CBool("EXTEND", TRUE)>>
    \o Filler(ncards - (5 + Len(dims)))
    \o <<CEnd>>

\* table extension header; cols is a sequence of [form, type, tbcol]
TableCards(xtension, extname, naxis1, naxis2, cols) ==
    <<CStr("XTENSION", xtension), CInt("BITPIX", 8), CInt("NAXIS", 2),
      CInt("NAXIS1", naxis1), CInt("NAXIS2", naxis2), CInt("PCOUNT", 0),
      CInt("GCOUNT", 1), CInt("TFIELDS", Len(cols))>>
    \o [i \in 1..Len(cols) |-> CStr(TformKey(i), cols[i].form)]
    \o [i \in 1..Len(cols) |-> CStr(TtypeKey(i), cols[i].type)]
    \o (IF xtension = "TABLE"
        THEN [i \in 1..Len(cols) |-> CInt(TbcolKey(i), cols[i].tbcol)] ELSE <<>>)
    \o <<CStr("EXTNAME", extname), CEnd>>

ImageCards(dims) ==
    <<CStr("XTENSION", "IMAGE"), CInt("BITPIX", 8), CInt("NAXIS", Len(dims))>>
    \o [i \in 1..Len(dims) |-> CInt(NaxisKey(i), dims[i])]
    \o <<CInt("PCOUNT", 0), CInt("GCOUNT", 1), CEnd>>

Col(form, type, tbcol) == [form |-> form, type |-> type, tbcol |-> tbcol]

\* binary table, 2 rows of (16-bit ID, 2-char TAG); the first row holds the
\* value 32 and the text "C "
BinCols == <<Col("1I", "ID", 0), Col("2A", "TAG", 0)>>
BinTable ==
    Hdu(TableCards("BINTABLE", "EVENTS", 4, 2, BinCols),
        Bytes(<<0, 32, 67, 32, 0, 7, 65, 66>>), NUL)

\* binary table of the same layout without white-space bytes in any field
BinTableDense ==
    Hdu(TableCards("BINTABLE", "DENSE", 4, 2, BinCols),
        Bytes(<<0, 7, 65, 66, 1, 2, 67, 68>>), SP)

\* ASCII table, 2 rows " 12 34" and "345 67": I3 at column 1, I2 at column 5
AsciiTable ==
    Hdu(TableCards("TABLE", "CATALOG", 6, 2, <<Col("I3", "N", 1), Col("I2", "M", 5)>>),
        Bytes(<<32, 49, 50, 32, 51, 52, 51, 52, 53, 32, 54, 55>>), SP)

\* ASCII table with adjoining right-justified fields: rows " 1234" and "34567"
AsciiTableDense ==
    Hdu(TableCards("TABLE", "PACKED", 5, 2, <<Col("I3", "N", 1), Col("I2", "M", 4)>>),
        Bytes(<<32, 49, 50, 51, 52, 51, 52, 53, 54, 55>>), SP)

ImageExt == Hdu(ImageCards(<<2>>), Bytes(<<5, 6>>), NUL)

\* primary HDUs: no data; two 16-bit pixels; whole records of 8-bit pixels
PrimaryEmpty(ncards) == Hdu(PrimaryCards(8, <<>>, ncards), <<>>, NUL)
Primary16(ncards, pad) == Hdu(PrimaryCards(16, <<2>>, ncards), Bytes(<<1, 1, 2, 2>>), pad)
PrimaryRecord(n) ==
    Hdu(PrimaryCards(8, <<n * logical_record_size>>, 6),
        Fill(NUL, n * logical_record_size), NUL)

\* the files the reader is given: each a sequence of HDUs
FileHdus ==
    << <<Primary16(6, NUL)>>,
       <<Primary16(6, SP)>>,
       <<PrimaryEmpty(HeaderCards)>>,
       <<Primary16(HeaderCards, SP)>>,
       <<Primary16(HeaderCards + 1, SP), BinTableDense>>,
       <<PrimaryRecord(MaxRecords), BinTable>>,
       <<PrimaryEmpty(5), BinTable, BinTableDense>>,
       <<PrimaryEmpty(5), AsciiTable, ImageExt>>,
       <<PrimaryEmpty(5), AsciiTableDense>> >>

Paths == 1..Len(FileHdus)

RECURSIVE Layout(_, _)
Layout(hs, k) == IF k = 0 THEN <<>> ELSE Cat(Layout(hs, k - 1), HduBytes(hs[k]))

\* the bytes of the file at a path
FileBytes(p) == Layout(FileHdus[p], Len(FileHdus[p]))

\* where the k-th HDU of the file at a path starts, and where its data starts
HeaderOffset(p, k) == Size(Layout(FileHdus[p], k - 1))
DataOffset(p, k) == HeaderOffset(p, k) + Size(HeaderBlock(FileHdus[p][k].cards))

\* the name under which the k-th HDU of the file at a path is known
HduName(p, k) ==
    IF FileHdus[p][k].cards[1].key = "SIMPLE" THEN "primary_hdu" ELSE FileHdus[p][k].cards[1].s

\* ------------------------------------------------------------------ fits_io
\* fits_io::extract_header: read_header, then set_unit_end
extract_header(f, st) ==
    LET header(rh) == IF rh.status = "ok" THEN [rh EXCEPT !.st = set_unit_end(rh.st)] ELSE rh
    IN header(read_header(f, st))

\* fits_io::extract_data_buffer: [data, st]
extract_data_buffer(f, st, hdr) ==
    LET buffer(num_bytes) ==
            [data |-> read_data(f, st, num_bytes),
             st |-> set_unit_end(read_stream(f, st, num_bytes))]
    IN IF data_size(hdr) = 0 THEN [data |-> <<>>, st |-> st]
       ELSE buffer(data_size(hdr) * get_element_size_from_bitpix(hdr.bitpix))

info(header_loc, data_loc, index) ==
    [header_location |-> header_loc, data_location |-> data_loc, hdu_index |-> index,
     read_status |-> FALSE]

\* hdus_info[name] = entry
Assign(m, name, entry) ==
    [n \in DOMAIN m \cup {name} |-> IF n = name THEN entry ELSE m[n]]

\* control_block::total_hdus
total_hdus(m) == Cardinality(DOMAIN m)

Reader(st, m, hdus, outcome) ==
    [st |-> st, hdus_info |-> m, hdu_list |-> hdus, outcome |-> outcome]

\* the body of either loop once the header is read and the data buffer
\* (empty in read_only_headers) is extracted: control-block entry,
\* construct_hdu, push_back
RecordHdu(r, st_thrown, st_done, entry, name, hdu_instance) ==
    IF ~name.ok THEN Reader(st_thrown, r.hdus_info, r.hdu_list, "throw")
    ELSE IF ~hdu_instance.ok
         THEN Reader(st_thrown, Assign(r.hdus_info, name.name, entry), r.hdu_list, "throw")
         ELSE Reader(st_done, Assign(r.hdus_info, name.name, entry),
                     Append(r.hdu_list, hdu_instance.hdu), "running")

\* one iteration of the loop of read_only_headers, after extract_header
HeaderOnlyStep(r, hdu_position, eh) ==
    RecordHdu(r, eh.st,
              IF data_size(eh.hdr) = 0 THEN eh.st
              ELSE set_unit_end(set_reading_pos(eh.st,
                       get_current_pos(eh.st)
                       + data_size(eh.hdr) * get_element_size_from_bitpix(eh.hdr.bitpix))),
              info(hdu_position, get_current_pos(eh.st), Len(r.hdu_list)),
              get_hdu_name(eh.hdr), construct_hdu(eh.hdr, <<>>))

\* one iteration of the loop of read_entire_hdus, after extract_header
EntireStep(f, r, header_loc, eh) ==
    LET step(hdu_data) ==
            RecordHdu(r, hdu_data.st, hdu_data.st,
                      info(header_loc, get_current_pos(eh.st), Len(r.hdu_list)),
                      get_hdu_name(eh.hdr), construct_hdu(eh.hdr, hdu_data.data))
    IN step(extract_data_buffer(f, eh.st, eh.hdr))

\* while (!file_reader.at_end()) { ... } of either scan
RECURSIVE ScanLoop(_, _, _)
ScanLoop(f, entire, r) ==
    LET body(eh) ==
            IF eh.status # "ok" THEN [r EXCEPT !.st = eh.st, !.outcome = eh.status]
            ELSE ScanLoop(f, entire,
                          IF entire THEN EntireStep(f, r, get_current_pos(r.st), eh)
                          ELSE HeaderOnlyStep(r, get_current_pos(r.st), eh))
    IN IF r.outcome # "running" THEN r
       ELSE IF at_end(f, r.st) THEN [r EXCEPT !.outcome = "ok"]
       ELSE body(extract_header(f, r.st))

read_only_headers(f, st, m, hdus) == ScanLoop(f, FALSE, Reader(st, m, hdus, "running"))
read_entire_hdus(f, st, m, hdus) == ScanLoop(f, TRUE, Reader(st, m, hdus, "running"))

\* fits_io::operator[](int index): hdu_list.at(index): [ok, hdu]
at(hdus, index) ==
    IF index >= 0 /\ index < Len(hdus) THEN [ok |-> TRUE, hdu |-> hdus[index + 1]]
    ELSE [ok |-> FALSE, hdu |-> EmptyHdu]

\* pad the written file with spaces up to find_unit_end() of the write position
WritePadding(out) ==
    Cat(out, Fill(SP, find_unit_end(Stream(Size(out), FALSE)) - Size(out)))

\* header::write_header that writes the padding and leaves out the cards
write_header_padding_only(out, hdr) == WritePadding(out)

\* header::write_header: the raw cards, then padding
write_header(out, hdr) == WritePadding(Cat(out, hdr.cards))

\* basic_primary_hdu::write_to
primary_write_to(out, h) ==
    WritePadding(Cat(write_header(out, h.header),
                     write_image(h.image, get_element_size_from_bitpix(h.header.bitpix))))

RECURSIVE Flatten(_)
Flatten(cells) == IF cells = <<>> THEN <<>> ELSE Head(cells) \o Flatten(Tail(cells))

RECURSIVE BinaryRows(_)
BinaryRows(rows) ==
    IF rows = <<>> THEN <<>> ELSE Cat(Bytes(Flatten(Head(rows))), BinaryRows(Tail(rows)))

\* basic_binary_table_extension::write_to: [ok, out]
binary_table_write_to(out, h) ==
    [ok |-> TRUE, out |-> WritePadding(Cat(write_header(out, h.header), BinaryRows(h.tb_data)))]

\* one row of the ASCII table: every cell left-padded with spaces to its
\* column_size; a cell longer than that makes the padding length wrap around
\* and the std::string constructor throws
AsciiRowFits(cols, row) ==
    \A c \in 1..Len(row) : Len(row[c]) <= ascii_column_size(cols[c].TFORM)

AsciiRow(cols, row) ==
    Flatten([c \in 1..Len(row) |->
               [j \in 1..(ascii_column_size(cols[c].TFORM) - Len(row[c])) |-> SP] \o row[c]])

\* the rows written before a row that does not fit, if any
RECURSIVE AsciiRows(_, _)
AsciiRows(cols, rows) ==
    IF rows = <<>> \/ ~AsciiRowFits(cols, Head(rows)) THEN <<>>
    ELSE Cat(Bytes(AsciiRow(cols, Head(rows))), AsciiRows(cols, Tail(rows)))

\* basic_ascii_table::write_to: [ok, out]
ascii_table_write_to(out, h) ==
    IF \A r \in 1..Len(h.tb_data) : AsciiRowFits(h.col_metadata, h.tb_data[r])
    THEN [ok |-> TRUE,
          out |-> WritePadding(Cat(write_header(out, h.header),
                                   AsciiRows(h.col_metadata, h.tb_data)))]
    ELSE [ok |-> FALSE,
          out |-> Cat(write_header(out, h.header), AsciiRows(h.col_metadata, h.tb_data))]

\* fits_writer_visitor: nothing for the empty variant, write_to otherwise
hdu_write_to(out, h) ==
    CASE h.variant = "blank" -> [ok |-> TRUE, out |-> out]
      [] h.variant = "primary" -> [ok |-> TRUE, out |-> primary_write_to(out, h)]
      [] h.variant = "bintable" -> binary_table_write_to(out, h)
      [] OTHER -> ascii_table_write_to(out, h)

\* fits_io::write_to: every stored HDU in order: [ok, out]
RECURSIVE write_to(_, _)
write_to(out, hdus) ==
    LET rest(w) == IF w.ok THEN write_to(w.out, Tail(hdus)) ELSE w
    IN IF hdus = <<>> THEN [ok |-> TRUE, out |-> out]
       ELSE rest(hdu_write_to(out, Head(hdus)))

\* ------------------------------------------------------------------ state
\* a fits_io reader: its stream, the file it has open, the control block, the
\* HDU list, and the bytes of the file its last operation wrote
VARIABLES file_reader, opened, filepath, hdus_info, hdu_list, written, pc, last, base, inits

reader_vars ==
    <<file_reader, opened, filepath, hdus_info, hdu_list, written, pc, last, base, inits>>

\* a table HDU held by a caller: the HDU, its cache of column views, the
\* number of views built so far, and what the caller did last
VARIABLES table, cached_columns, made, tlast, wrote, again, tpc

table_vars == <<table, cached_columns, made, tlast, wrote, again, tpc>>

\* a card held by a caller: its raw text, its cached value, what the caller
\* did last, with what arguments and what it got back, the value the
\* caller has set or has first been given since the card was constructed
\* and the operation that stored the present text
VARIABLES card_, card_cache, clast, cio, memo, source

card_vars == <<card_, card_cache, clast, cio, memo, source>>

\* a header held by a caller, the file the caller wrote it to, the header
\* read back from that file, the header as it was when it was written, and
\* what the caller did last
VARIABLES header_, test_file, test_header, hwritten, hlast

header_vars == <<header_, test_file, test_header, hwritten, hlast>>

\* the argument a function is called with and what the call gave
VARIABLES input, output

pure_vars == <<input, output>>

\* the table HDU objects a caller holds: for each the HDU, its cache of
\* column views, the object whose row matrix each cached view points to
\* and whether the object's lifetime has ended; and what the caller did last
VARIABLES objects, olast

object_vars == <<objects, olast>>

vars == <<reader_vars, table_vars, card_vars, header_vars, pure_vars, object_vars>>

\* no table HDU and no card are in use
NoTable ==
    /\ table = [variant |-> "blank"]
    /\ cached_columns = <<>>
    /\ made = 0
    /\ tlast = [op |-> "none"]
    /\ wrote = <<>>
    /\ again = {}
    /\ tpc = "none"

NoCard ==
    /\ card_ = <<>>
    /\ card_cache = [which |-> "blank"]
    /\ clast = [op |-> "none", outcome |-> "ok", key |-> <<>>]
    /\ cio = [value |-> [kind |-> "none"], comment |-> <<>>, text |-> <<>>, type |-> "",
              ret |-> [kind |-> "none"]]
    /\ memo = [from |-> "none", value |-> [kind |-> "none"]]
    /\ source = [op |-> "none", key |-> <<>>, value |-> [kind |-> "none"]]

\* no header is in use and no function has been called
NoHeaderUse ==
    /\ header_ = [status |-> "none", cards |-> <<>>, bitpix |-> "bad", naxis |-> <<>>]
    /\ test_file = <<>>
    /\ test_header = [status |-> "none", cards |-> <<>>, bitpix |-> "bad", naxis |-> <<>>]
    /\ hwritten = [status |-> "none", cards |-> <<>>, bitpix |-> "bad", naxis |-> <<>>]
    /\ hlast = [op |-> "none", outcome |-> "ok", path |-> 0]

\* no table HDU objects are in use
NoObjects ==
    /\ objects = <<>>
    /\ olast = [op |-> "none", outcome |-> "ok", object |-> 0, name |-> "", target |-> 0]

NoCall ==
    /\ input = [fn |-> "none"]
    /\ output = [fn |-> "none", outcome |-> "ok", of |-> "none", value |-> <<>>, bytes |-> <<>>]

\* no reader is in use
NoReader ==
    /\ file_reader = [pos |-> 0, fail |-> FALSE]
    /\ opened = 0
    /\ filepath = 0
    /\ hdus_info = <<>>
    /\ hdu_list = <<>>
    /\ written = <<>>
    /\ pc = "uninitialized"
    /\ last = [op |-> "none", mode |-> "", outcome |-> "", fresh |-> FALSE]
    /\ base = 0
    /\ inits = 0
\* ------------------------------------------------------------------ the reader
\* the last operation: a scan's mode and outcome, and whether it ran on a
\* freshly initialized reader
Last(op, mode, outcome, fresh) ==
    [op |-> op, mode |-> mode, outcome |-> outcome, fresh |-> fresh]

Init == NoReader /\ NoTable /\ NoCard /\ NoHeaderUse /\ NoObjects /\ NoCall

\* fits_io::initialize(filepath): set_file, control block cleared, path stored;
\* hdu_list is left as it is
initialize(p) ==
    /\ pc # "diverged"
    /\ inits < MaxInits
    /\ file_reader' = Stream(0, FALSE)
    /\ opened' = p
    /\ hdus_info' = <<>>
    /\ filepath' = p
    /\ pc' = "open"
    /\ last' = Last("initialize", "", "ok", FALSE)
    /\ inits' = inits + 1
    /\ written' = <<>>
    /\ UNCHANGED <<hdu_list, base, table_vars, card_vars, header_vars, pure_vars, object_vars>>

Scanned(r, mode) ==
    /\ file_reader' = r.st
    /\ hdus_info' = r.hdus_info
    /\ hdu_list' = r.hdu_list
    /\ pc' = IF r.outcome = "diverged" THEN "diverged" ELSE "open"
    /\ last' = Last("scan", mode, r.outcome, last.op = "initialize")
    /\ base' = Len(hdu_list)
    /\ written' = <<>>
    /\ UNCHANGED <<opened, filepath, inits, table_vars, card_vars, header_vars, pure_vars, object_vars>>

\* fits_io::read_only_headers
ReadOnlyHeaders ==
    /\ pc = "open"
    /\ Scanned(read_only_headers(FileBytes(opened), file_reader, hdus_info, hdu_list), "headers")

\* fits_io::read_entire_hdus
ReadEntireHdus ==
    /\ pc = "open"
    /\ Scanned(read_entire_hdus(FileBytes(opened), file_reader, hdus_info, hdu_list), "entire")

\* fits_io::write_to of the scanned HDUs
WriteTo ==
    /\ pc = "open"
    /\ last.op = "scan"
    /\ written' = write_to(<<>>, hdu_list).out
    /\ last' = [last EXCEPT !.op = "write"]
    /\ UNCHANGED <<file_reader, opened, filepath, hdus_info, hdu_list, pc, base, inits,
                   table_vars, card_vars, header_vars, pure_vars, object_vars>>

Next ==
    \/ \E p \in Paths : initialize(p)
    \/ ReadOnlyHeaders
    \/ ReadEntireHdus
    \/ WriteTo

Spec == Init /\ [][Next]_vars

\* ------------------------------------------------------------------ properties of the reader
\* a scan of a freshly initialized reader has returned
FreshScanDone == last.op = "scan" /\ last.fresh /\ last.outcome = "ok"

\* the number of pixels or of table rows an HDU object holds
PayloadSize(h) == ElemCount(h.image) + Len(h.tb_data)

\* C1: after a scan of a well-formed file every HDU's control-block entry
\* holds the offset of the HDU's first card and the offset of its data block
C1_OffsetsRecorded ==
    FreshScanDone =>
        \A k \in 1..Len(FileHdus[opened]) :
            (\A j \in (k + 1)..Len(FileHdus[opened]) : HduName(opened, j) # HduName(opened, k))
            => /\ HduName(opened, k) \in DOMAIN hdus_info
               /\ hdus_info[HduName(opened, k)].header_location = HeaderOffset(opened, k)
               /\ hdus_info[HduName(opened, k)].data_location = DataOffset(opened, k)

C3_WriteBackIdentical ==
    (last.op = "write" /\ last.mode = "entire" /\ last.fresh /\ last.outcome = "ok" /\ inits = 1)
        => written = FileBytes(opened)

\* what a scan leaves behind: whether it returned, the HDUs, the control block
Bookkeeping(r) ==
    [outcome |-> r.outcome,
     hdus |-> [k \in 1..Len(r.hdu_list) |-> r.hdu_list[k].variant],
     hdus_info |-> r.hdus_info]

\* C4: on a freshly initialized reader both scans leave the same bookkeeping
C4_SameBookkeeping ==
    (last.op = "scan" /\ last.fresh /\ inits = 1) =>
        Bookkeeping(Reader(file_reader, hdus_info, hdu_list, last.outcome))
            = Bookkeeping(IF last.mode = "headers"
                          THEN read_entire_hdus(FileBytes(opened), Stream(0, FALSE), <<>>, <<>>)
                          ELSE read_only_headers(FileBytes(opened), Stream(0, FALSE), <<>>, <<>>))

\* C5: after a scan the control block has one entry per HDU scanned
C5_OneEntryPerHdu ==
    (FreshScanDone /\ inits = 1) => total_hdus(hdus_info) = Len(hdu_list)

\* C6: after re-initialization and a scan the control block describes the
\* HDUs of the new file, and access by an entry's index returns that HDU
C6_RebuiltOnInitialize ==
    (FreshScanDone /\ inits > 1 /\ base > 0) =>
        \A name \in DOMAIN hdus_info :
            /\ hdus_info[name].hdu_index < Len(FileHdus[opened])
            /\ HduName(opened, hdus_info[name].hdu_index + 1) = name
            /\ at(hdu_list, hdus_info[name].hdu_index).ok
            /\ at(hdu_list, hdus_info[name].hdu_index).hdu.header.cards
                   \in {FileHdus[opened][hdus_info[name].hdu_index + 1].cards, <<>>}

\* ------------------------------------------------------------------ column views
\* the types a caller asks a column as, with the size of each
ViewTypes == {"int16", "int32"}
SizeOf(type) == IF type = "int16" THEN 2 ELSE 4

\* values callers write, and the bytes an out-of-bounds read may find
Values == {7, 345}
JunkBytes == {0, 255}

\* the decimal digits of a natural number, as character codes
RECURSIVE Decimal(_)
Decimal(v) == IF v < 10 THEN <<48 + v>> ELSE Decimal(v \div 10) \o <<48 + (v % 10)>>

IsDigits(text) == text # <<>> /\ \A j \in 1..Len(text) : text[j] \in 48..57

RECURSIVE DecimalValue(_)
DecimalValue(text) ==
    IF text = <<>> THEN 0
    ELSE DecimalValue(SubSeq(text, 1, Len(text) - 1)) * 10 + (text[Len(text)] - 48)

\* Converter::serialize: the big-endian bytes of the value in a binary
\* table, the text operator<< prints in an ASCII table
serialize(ascii, type, v) ==
    IF ascii THEN Decimal(v) ELSE serialize_numeric(v, SizeOf(type))

\* the sizeof(T) bytes element_to_numeric reads at c_str(): the cell, its
\* terminating NUL, and past that whatever follows the string in memory
CellBytes(cell, k, junk) ==
    [j \in 1..k |-> IF j <= Len(cell) THEN cell[j]
                    ELSE IF j = Len(cell) + 1 THEN NUL ELSE junk]

\* Converter::deserialize_to<T>(cell, total_elements): [outcome, v].  The
\* ASCII converter returns its uninitialized local for an empty cell and
\* throws invalid_cast when the parser stops before the end of the cell
deserialize_to(ascii, type, cell, junk) ==
    IF ~ascii THEN [outcome |-> "ok", v |-> element_to_numeric(CellBytes(cell, SizeOf(type), junk))]
    ELSE IF cell = <<>> THEN [outcome |-> "ok", v |-> junk]
    ELSE IF IsDigits(cell) THEN [outcome |-> "ok", v |-> DecimalValue(cell)]
    ELSE [outcome |-> "invalid_cast", v |-> 0]

\* column_view(column_metadata, &tb_data); id tells the view objects apart
ColumnView(id, type, column) ==
    [id |-> id, type |-> type, column |-> column, cached_index |-> <<>>]

IsAscii(t) == t.variant = "ascii"

\* get_column_metadata that gives the first column for every name
first_column_metadata(cols, column_name, k) == 1

\* table_extension::get_column_metadata: the position of the column named
\* column_name in col_metadata_, 0 when there is none
RECURSIVE get_column_metadata(_, _, _)
get_column_metadata(cols, column_name, k) ==
    IF k > Len(cols) THEN 0
    ELSE IF cols[k].TTYPE = column_name THEN k
    ELSE get_column_metadata(cols, column_name, k + 1)

\* get_column that builds a view on every request
get_column_rebuilding(t, columns, built, column_name, type) ==
    LET found(k) ==
            IF k = 0
            THEN [outcome |-> "column_not_found", cached_columns |-> columns, made |-> built,
                  id |-> 0]
            ELSE [outcome |-> "ok",
                  cached_columns |->
                      Assign(columns, column_name, ColumnView(built + 1, type, t.col_metadata[k])),
                  made |-> built + 1, id |-> built + 1]
    IN found(get_column_metadata(t.col_metadata, column_name, 1))

\* basic_{binary,ascii}_table::get_column<T>(column_name): the cached view
\* if there is one (boost::get throws bad_get when it is of another type),
\* a new view emplaced in the cache otherwise
get_column(t, columns, built, column_name, type) ==
    IF column_name \in DOMAIN columns
    THEN [outcome |-> IF columns[column_name].type = type THEN "ok" ELSE "bad_get",
          cached_columns |-> columns, made |-> built,
          id |-> IF columns[column_name].type = type THEN columns[column_name].id ELSE 0]
    ELSE get_column_rebuilding(t, columns, built, column_name, type)

\* update_value that writes the cell and leaves the cache alone
update_value_uncached(ascii, view, tb_data, row, new_value) ==
    [view |-> view,
     tb_data |-> [tb_data EXCEPT ![row + 1][view.column.index] =
                      serialize(ascii, view.type, new_value)]]

\* update_value that writes the value into every cell of the row
update_value_whole_row(ascii, view, tb_data, row, new_value) ==
    [view |-> [view EXCEPT !.cached_index = Assign(@, row, new_value)],
     tb_data |-> [tb_data EXCEPT ![row + 1] =
                      [c \in 1..Len(@) |-> serialize(ascii, view.type, new_value)]]]

\* column_view::update_value(row, new_value), for a row of the table
update_value(ascii, view, tb_data, row, new_value) ==
    [view |-> [view EXCEPT !.cached_index = Assign(@, row, new_value)],
     tb_data |-> [tb_data EXCEPT ![row + 1][view.column.index] =
                      serialize(ascii, view.type, new_value)]]

\* column_view::operator[](row_number), for a row of the table:
\* [outcome, view, ret, hit]
view_at(ascii, view, tb_data, row_number, junk) ==
    LET cached(d) ==
            IF d.outcome = "ok"
            THEN [outcome |-> "ok",
                  view |-> [view EXCEPT !.cached_index = Assign(@, row_number, d.v)],
                  ret |-> d.v, hit |-> FALSE]
            ELSE [outcome |-> d.outcome, view |-> view, ret |-> 0, hit |-> FALSE]
    IN IF row_number \in DOMAIN view.cached_index
       THEN [outcome |-> "ok", view |-> view, ret |-> view.cached_index[row_number],
             hit |-> TRUE]
       ELSE cached(deserialize_to(ascii, view.type,
                                  tb_data[row_number + 1][view.column.index], junk))

\* write_to of a table HDU into an empty file: [ok, out]
table_write_to(t) ==
    IF IsAscii(t) THEN ascii_table_write_to(<<>>, t) ELSE binary_table_write_to(<<>>, t)

\* ------------------------------------------------------------------ a caller of a table HDU
\* the table HDUs callers hold: each built from its header and data block
TableHdus == <<BinTable, BinTableDense, AsciiTable, AsciiTableDense>>

TableOf(h) ==
    construct_hdu(read_header(HeaderBlock(h.cards), Stream(0, FALSE)).hdr, h.data).hdu

\* the column names callers ask for: those of the tables and one no table has
ColumnNames == {"ID", "TAG", "N", "M", "NOPE"}

\* callers use row indexes 0..MaxRows
MaxRows == 2

\* what the caller did last and what came of it
TLast(op, name, row, v, outcome, ret, hit, id, out) ==
    [op |-> op, name |-> name, row |-> row, v |-> v, outcome |-> outcome, ret |-> ret,
     hit |-> hit, id |-> id, out |-> out]

InitTable ==
    /\ NoReader /\ NoCard /\ NoHeaderUse /\ NoObjects /\ NoCall
    /\ \E k \in 1..Len(TableHdus) : table = TableOf(TableHdus[k])
    /\ cached_columns = <<>>
    /\ made = 0
    /\ tlast = TLast("none", "", 0, 0, "ok", 0, FALSE, 0, <<>>)
    /\ wrote = <<>>
    /\ again = {}
    /\ tpc = "ready"

\* hdu.get_column<type>(column_name)
GetColumn(column_name, type) ==
    LET got(g) ==
            /\ cached_columns' = g.cached_columns
            /\ made' = g.made
            /\ tlast' = TLast("get_column", column_name, 0, 0, g.outcome, 0, FALSE, g.id, <<>>)
            /\ again' = IF g.outcome = "ok" THEN again \cup {column_name} ELSE again
    IN /\ tpc = "ready"
       /\ column_name = "NOPE" \/ get_column_metadata(table.col_metadata, column_name, 1) # 0
       /\ got(get_column(table, cached_columns, made, column_name, type))
       /\ UNCHANGED <<table, wrote, tpc, reader_vars, card_vars, header_vars, pure_vars, object_vars>>

\* an access through a view to a row the table does not have: undefined
Undefined(op, column_name, row, v) ==
    /\ tpc' = "undefined"
    /\ tlast' = TLast(op, column_name, row, v, "undefined", 0, FALSE, 0, <<>>)
    /\ UNCHANGED <<table, cached_columns, made, wrote, again, reader_vars, card_vars, header_vars, pure_vars, object_vars>>

\* value = view[row], through the view get_column returned for column_name
ViewRead(column_name, row) ==
    LET read(r) ==
            /\ cached_columns' = [cached_columns EXCEPT ![column_name] = r.view]
            /\ tlast' = TLast("read", column_name, row, 0, r.outcome, r.ret, r.hit,
                              r.view.id, <<>>)
            /\ UNCHANGED <<table, made, wrote, again, tpc, reader_vars, card_vars, header_vars, pure_vars, object_vars>>
    IN /\ tpc = "ready"
       /\ column_name \in DOMAIN cached_columns
       /\ row <= Len(table.tb_data)
       /\ IF row >= Len(table.tb_data) THEN Undefined("read", column_name, row, 0)
          ELSE \E junk \in JunkBytes :
                  read(view_at(IsAscii(table), cached_columns[column_name], table.tb_data,
                               row, junk))

\* view[row] = v, through the view get_column returned for column_name
ViewWrite(column_name, row, v) ==
    LET written_through(u) ==
            /\ cached_columns' = [cached_columns EXCEPT ![column_name] = u.view]
            /\ table' = [table EXCEPT !.tb_data = u.tb_data]
            /\ tlast' = TLast("write", column_name, row, v, "ok", 0, FALSE, u.view.id, <<>>)
            /\ wrote' = Assign(wrote, <<column_name, row>>, v)
            /\ again' = again \ {column_name}
            /\ UNCHANGED <<made, tpc, reader_vars, card_vars, header_vars, pure_vars, object_vars>>
    IN /\ tpc = "ready"
       /\ column_name \in DOMAIN cached_columns
       /\ row <= Len(table.tb_data)
       /\ IF row >= Len(table.tb_data) THEN Undefined("write", column_name, row, v)
          ELSE written_through(update_value(IsAscii(table), cached_columns[column_name],
                                            table.tb_data, row, v))

\* hdu.write_to(file_writer), on an empty file
TableWriteTo ==
    LET wrote_out(w) ==
            tlast' = TLast("write_to", "", 0, 0, IF w.ok THEN "ok" ELSE "length_error", 0,
                           FALSE, 0, w.out)
    IN /\ tpc = "ready"
       /\ wrote_out(table_write_to(table))
       /\ UNCHANGED <<table, cached_columns, made, wrote, again, tpc, reader_vars, card_vars, header_vars, pure_vars, object_vars>>

NextTable ==
    \/ \E column_name \in ColumnNames, type \in ViewTypes : GetColumn(column_name, type)
    \/ \E column_name \in ColumnNames, row \in 0..MaxRows : ViewRead(column_name, row)
    \/ \E column_name \in ColumnNames, row \in 0..MaxRows, v \in Values :
          ViewWrite(column_name, row, v)
    \/ TableWriteTo

SpecTable == InitTable /\ [][NextTable]_vars
\* ------------------------------------------------------------------ properties of column views
\* the caller last read, through its view, a cell it has written
ReadOfWritten == tlast.op = "read" /\ <<tlast.name, tlast.row>> \in DOMAIN wrote

\* C7: a value written at a row through a view is what a read of that row
\* through the view returns, and the read is served from the view's cache
C7_ReadBackFromCache ==
    ReadOfWritten =>
        /\ tlast.outcome = "ok"
        /\ tlast.ret = wrote[<<tlast.name, tlast.row>>]
        /\ tlast.hit

\* C7, witness: a cell that held another value was overwritten and read back
C7_WrittenThenRead ==
    /\ ReadOfWritten
    /\ tlast.hit
    /\ tlast.ret = 345
    /\ table.variant = "bintable"
    /\ table.header.cards = BinTable.cards

\* where the field of a column starts inside a row of the data block
FieldOffset(t, c) ==
    IF IsAscii(t) THEN t.col_metadata[c].TBCOL - 1 ELSE BinaryOffset(t.col_metadata, c)

\* the bytes the field of a column holds for a serialized value: the value
\* right-justified in an ASCII field
FieldBytes(t, c, text) ==
    IF IsAscii(t)
    THEN [j \in 1..(ascii_column_size(t.col_metadata[c].TFORM) - Len(text)) |-> SP] \o text
    ELSE text

\* the serialized value is as wide as the field (no wider, in an ASCII table)
Fits(t, c, text) ==
    IF IsAscii(t) THEN Len(text) <= ascii_column_size(t.col_metadata[c].TFORM)
    ELSE Len(text) = binary_column_size(t.col_metadata[c].TFORM)

\* the serialization of what was last written at a cell
Written(key) == serialize(IsAscii(table), cached_columns[key[1]].type, wrote[key])

\* C8: a write through a view replaces the cell by the serialized value, and
\* write_to emits it at row * NAXIS1 + the field's offset in the data block
C8_WriteThrough ==
    /\ tlast.op = "write" /\ tlast.outcome = "ok" =>
          table.tb_data[tlast.row + 1][cached_columns[tlast.name].column.index]
              = serialize(IsAscii(table), cached_columns[tlast.name].type, tlast.v)
    /\ (/\ tlast.op = "write_to"
        /\ \A key \in DOMAIN wrote :
              Fits(table, cached_columns[key[1]].column.index, Written(key)))
       => /\ tlast.outcome = "ok"
          /\ \A key \in DOMAIN wrote :
                Expand(Slice(tlast.out,
                             Size(HeaderBlock(table.header.cards))
                                 + key[2] * table.header.naxis[1]
                                 + FieldOffset(table, cached_columns[key[1]].column.index),
                             Len(FieldBytes(table, cached_columns[key[1]].column.index,
                                            Written(key)))))
                    = FieldBytes(table, cached_columns[key[1]].column.index, Written(key))

\* C9: a column's view is built once and every request for the column
\* returns it, and a value written through it is what a read through the
\* view a later request returned gives
C9_SameCachedView ==
    /\ made = Cardinality(DOMAIN cached_columns)
    /\ tlast.op = "get_column" /\ tlast.outcome = "ok" =>
          tlast.id = cached_columns[tlast.name].id
    /\ ReadOfWritten /\ tlast.name \in again =>
          tlast.outcome = "ok" /\ tlast.ret = wrote[<<tlast.name, tlast.row>>]

\* C9, witness: the column was requested again after the write, and the view
\* of the later request was read
C9_ReadThroughLaterRequest ==
    /\ ReadOfWritten
    /\ tlast.name \in again
    /\ tlast.id = cached_columns[tlast.name].id
    /\ tlast.ret = 7
\* ------------------------------------------------------------------ further properties of column views
\* the table has a column of this name
HasColumn(column_name) ==
    \E k \in 1..Len(table.col_metadata) : table.col_metadata[k].TTYPE = column_name

\* C21: get_column<T>(name) with a name that no column of the table has
\* raises column_not_found, and the cache of column views has no entry for
\* the name afterwards
C21_UnknownColumn ==
    (tlast.op = "get_column" /\ ~HasColumn(tlast.name)) =>
        /\ tlast.outcome = "column_not_found"
        /\ tlast.name \notin DOMAIN cached_columns

\* C21, witness: an unknown column was asked of a table whose cache holds
\* views already, and the cache holds those views and no other
C21_UnknownAfterKnown ==
    /\ tlast.op = "get_column"
    /\ tlast.name = "NOPE"
    /\ tlast.outcome = "column_not_found"
    /\ DOMAIN cached_columns = {"ID", "TAG"}

\* the binary tables callers hold, with the data buffer each was built from
BinaryHdus == {BinTable, BinTableDense}

\* C27: in the row matrix a binary table is constructed with, every cell
\* holds the column_size(TFORM) bytes of its field in the data buffer,
\* whatever their values, and there are NAXIS2 rows of TFIELDS cells
C27_CellsHoldFieldBytes ==
    \A h \in BinaryHdus :
        (tlast.op = "none" /\ table.header.cards = h.cards) =>
            /\ Len(table.tb_data) = table.header.naxis[2]
            /\ \A r \in 1..Len(table.tb_data) :
                  /\ Len(table.tb_data[r]) = table.tfields
                  /\ \A c \in 1..table.tfields :
                        table.tb_data[r][c]
                            = Expand(Slice(h.data,
                                           (r - 1) * table.header.naxis[1]
                                               + BinaryOffset(table.col_metadata, c),
                                           binary_column_size(table.col_metadata[c].TFORM)))

\* C29: a read or a write through a column view at a row the row matrix
\* does not have raises an error, and touches nothing outside the matrix
C29_RowBoundsChecked ==
    (tlast.op \in {"read", "write"} /\ tlast.row \notin 0..(Len(table.tb_data) - 1)) =>
        /\ tlast.outcome \notin {"ok", "undefined"}
        /\ tpc = "ready"

\* the step was a write through the view of a column, or a read
WriteStep == tlast'.op = "write" /\ tlast'.outcome = "ok"
ReadStep == tlast'.op = "read" /\ tlast'.outcome \in {"ok", "invalid_cast"}

\* C30: a write through a view at row r of column c changes cell (r, c) of
\* the row matrix and the entry for row r of that view's cache and nothing
\* else: every other cell, every other view and every other cached row
\* of the view are as before; a read through a view changes no cell
C30_WriteFrame ==
    [][/\ WriteStep =>
            /\ Len(table'.tb_data) = Len(table.tb_data)
            /\ \A r \in 1..Len(table.tb_data) :
                  /\ Len(table'.tb_data[r]) = Len(table.tb_data[r])
                  /\ \A c \in 1..Len(table.tb_data[r]) :
                        (r # tlast'.row + 1 \/ c # cached_columns[tlast'.name].column.index)
                            => table'.tb_data[r][c] = table.tb_data[r][c]
            /\ DOMAIN cached_columns' = DOMAIN cached_columns
            /\ \A n \in DOMAIN cached_columns :
                  n # tlast'.name => cached_columns'[n] = cached_columns[n]
            /\ DOMAIN cached_columns'[tlast'.name].cached_index
                   = DOMAIN cached_columns[tlast'.name].cached_index \cup {tlast'.row}
            /\ \A r \in DOMAIN cached_columns[tlast'.name].cached_index :
                  r # tlast'.row =>
                      cached_columns'[tlast'.name].cached_index[r]
                          = cached_columns[tlast'.name].cached_index[r]
       /\ ReadStep => table'.tb_data = table.tb_data]_vars

\* C30, witness: a cell was written in a table whose other cells, other
\* view and other cached rows hold values
C30_WrittenAmongOthers ==
    /\ tlast.op = "write" /\ tlast.outcome = "ok"
    /\ tlast.name = "TAG" /\ tlast.row = 1
    /\ DOMAIN cached_columns = {"ID", "TAG"}
    /\ DOMAIN cached_columns["TAG"].cached_index = {0, 1}
    /\ DOMAIN cached_columns["ID"].cached_index = {0, 1}
\* ------------------------------------------------------------------ cards
Letters(n) == [j \in 1..n |-> 65]
Quote == 39
Slash == 47

\* keywords callers use: NAXIS, EXPOSURE, COMMENT, END, the blank keyword,
\* and LONGKEYWD, which has nine characters
KeyNaxis == <<78, 65, 88, 73, 83>>
KeyExposure == <<69, 88, 80, 79, 83, 85, 82, 69>>
KeyLong == <<76, 79, 78, 71, 75, 69, 89, 87, 68>>
Keys == {KeyNaxis, KeyExposure, KeyComment, KeyEnd, <<>>, KeyLong}

\* values callers give a card: integers, a logical, and strings of 0, 68
\* and 69 characters (70 and 71 with their quotes)
IntValue(i) == [kind |-> "int", i |-> i, s |-> <<>>]
BoolValue(b) == [kind |-> "bool", i |-> IF b THEN 1 ELSE 0, s |-> <<>>]
StringValue(s) == [kind |-> "string", i |-> 0, s |-> s]
CardValues ==
    {IntValue(3), IntValue(345), BoolValue(TRUE), StringValue(<<>>),
     StringValue(Letters(CardSize - 12)), StringValue(Letters(CardSize - 11))}

Comments == {<<>>, Letters(4), Letters(CardSize - 20)}

CommentaryTexts == {<<>>, Letters(4), Letters(CardSize - 10), Letters(CardSize - 9)}

\* card_policy::is_key_valid
is_key_valid(keyword) == Len(keyword) <= 8

\* card_policy::is_card_valid(keyword, value, comment)
is_card_valid_parts(keyword, value, comment) ==
    /\ is_key_valid(keyword)
    /\ IF comment = <<>> THEN Len(value) <= 70 ELSE Len(value) + Len(comment) <= 68

\* card_policy::serialize_to_fits_format: numbers and logicals are
\* right-justified in 20 columns, strings are put between quotes
serialize_to_fits_format(value) ==
    CASE value.kind = "int" -> Spaces(20 - Len(Decimal(value.i))) \o Decimal(value.i)
      [] value.kind = "bool" -> Spaces(19) \o <<IF value.i = 1 THEN 84 ELSE 70>>
      [] OTHER -> <<Quote>> \o value.s \o <<Quote>>

\* card_policy::extract_keyword and format_keyword
extract_keyword(fits_card) == Substr(fits_card, 0, 8)
format_keyword(keyword) == keyword \o Spaces(8 - Len(keyword))

\* card::keyword(whole)
keyword(fits_card, whole) ==
    IF whole THEN extract_keyword(fits_card) ELSE TrimBytes(extract_keyword(fits_card))

\* card::card(fits_card): [outcome, card].  is_card_valid takes substr(8, 2)
\* of the text first, which throws std::out_of_range on a text shorter than 8
card(old, fits_card) ==
    IF is_card_valid_throws(fits_card) THEN [outcome |-> "out_of_range", card |-> old]
    ELSE IF is_card_valid(fits_card) THEN [outcome |-> "ok", card |-> fits_card]
    ELSE [outcome |-> "invalid_card", card |-> old]

\* card::create_card_impl(key, value, comment): [outcome, card]
create_card_impl(old, key, value, comment) ==
    LET padded(text) == text \o Spaces(80 - Len(text))
    IN IF ~is_card_valid_parts(key, value, comment)
       THEN [outcome |-> "invalid_card", card |-> old]
       ELSE [outcome |-> "ok",
             card |-> padded(format_keyword(key) \o <<EQ, SP>> \o value
                             \o (IF comment = <<>> THEN <<>> ELSE <<SP, Slash>> \o comment))]

\* card::create_card(key, value, comment)
create_card(old, key, value, comment) ==
    create_card_impl(old, key, serialize_to_fits_format(value), comment)

\* card::create_commentary_card(key, value): [outcome, card].  The text is
\* stored before it is padded; append(80 - length) of a longer text throws
\* std::length_error
create_commentary_card(old, key, value) ==
    LET stored(card_content) ==
            IF Len(card_content) > 80 THEN [outcome |-> "length_error", card |-> card_content]
            ELSE [outcome |-> "ok", card |-> card_content \o Spaces(80 - Len(card_content))]
    IN IF ~is_key_valid(key) THEN [outcome |-> "invalid_card", card |-> old]
       ELSE stored(key \o <<SP, SP>> \o value)

\* set_value that stores the text and leaves the cached value alone
set_value_keeping_cache(old, cache, value) ==
    LET stored(serialized_value) ==
            IF is_card_valid_parts(keyword(old, FALSE), serialized_value, <<>>)
            THEN [outcome |-> "ok", card |-> keyword(old, TRUE) \o serialized_value,
                  cache |-> cache]
            ELSE [outcome |-> "ignored", card |-> old, cache |-> cache]
    IN stored(serialize_to_fits_format(value))

\* card::set_value(value): [outcome, card, cache]; nothing happens when the
\* serialized value is too long
set_value(old, cache, value) ==
    LET stored(serialized_value) ==
            IF is_card_valid_parts(keyword(old, FALSE), serialized_value, <<>>)
            THEN [outcome |-> "ok", card |-> keyword(old, TRUE) \o serialized_value,
                  cache |-> [which |-> value.kind, value |-> value]]
            ELSE [outcome |-> "ignored", card |-> old, cache |-> cache]
    IN stored(serialize_to_fits_format(value))

\* std::string::find(ch): the position of the first ch in the text, -1 for npos
RECURSIVE Find(_, _, _)
Find(text, ch, k) ==
    IF k > Len(text) THEN -1 ELSE IF text[k] = ch THEN k - 1 ELSE Find(text, ch, k + 1)

\* card_policy::extract_value: substr(9, find('/') - 10) of a text of 9
\* characters or more; the unsigned count wraps when find gives less than 10
extract_value(fits_card) ==
    LET count(p) == IF p < 10 THEN Len(fits_card) ELSE p - 10
    IN Substr(fits_card, 9, count(Find(fits_card, Slash, 1)))

\* the types callers ask the value of a card as
CardTypes == {"int", "bool", "string"}

\* card::value_imp(boost::type<ReturnType>) and card_policy::parse_to:
\* [outcome, v].  substr(9) of a shorter text throws std::out_of_range; a
\* value that is a single quote has its string built from a reversed range
value_imp(fits_card, type, junk) ==
    LET number(r) == [outcome |-> r.outcome, v |-> IntValue(r.v)]
        parsed(val) ==
            CASE type = "int" -> number(deserialize_to(TRUE, "int32", val, junk))
              [] type = "bool" ->
                    IF val \in {<<84>>, <<70>>}
                    THEN [outcome |-> "ok", v |-> BoolValue(val = <<84>>)]
                    ELSE [outcome |-> "invalid_cast", v |-> BoolValue(FALSE)]
              [] OTHER ->
                    IF val = <<>> \/ val[1] # Quote
                    THEN [outcome |-> "ok", v |-> StringValue(val)]
                    ELSE IF Len(val) = 1
                    THEN [outcome |-> "undefined", v |-> StringValue(<<>>)]
                    ELSE [outcome |-> "ok",
                          v |-> StringValue(TrimBytes(SubSeq(val, 2, Len(val) - 1)))]
    IN IF Len(fits_card) < 9 THEN [outcome |-> "out_of_range", v |-> [kind |-> "none"]]
       ELSE parsed(TrimBytes(extract_value(fits_card)))

\* card::value<ReturnType>(): [outcome, cache, ret].  An empty cache is
\* filled from the text; boost::get throws bad_get when the cache holds a
\* value of another type
value(fits_card, cache, type, junk) ==
    LET got(c) ==
            IF c.which = type THEN [outcome |-> "ok", cache |-> c, ret |-> c.value]
            ELSE [outcome |-> "bad_get", cache |-> c, ret |-> [kind |-> "none"]]
        filled(r) ==
            IF r.outcome = "ok" THEN got([which |-> r.v.kind, value |-> r.v])
            ELSE [outcome |-> r.outcome, cache |-> cache, ret |-> [kind |-> "none"]]
    IN IF cache.which # "blank" THEN got(cache) ELSE filled(value_imp(fits_card, type, junk))

\* ------------------------------------------------------------------ a caller of a card
\* raw card texts callers construct cards from: whole cards, the bare END
\* keyword, a 10-character text, an 81-character text, text without "= "
RawTexts ==
    {create_card(<<>>, KeyNaxis, IntValue(3), <<>>).card,
     create_commentary_card(<<>>, KeyComment, Letters(4)).card,
     Spaces(CardSize),
     KeyEnd,
     KeyEnd \o Spaces(CardSize - 3),
     KeyExposure \o <<EQ, SP>>,
     KeyComment \o <<SP>> \o Letters(4),
     KeyNaxis \o Letters(4),
     Letters(CardSize),
     Letters(CardSize + 1)}

CLast(op, outcome, key) == [op |-> op, outcome |-> outcome, key |-> key]

NoValue == [kind |-> "none"]
CIO(v, comment, text, type, ret) ==
    [value |-> v, comment |-> comment, text |-> text, type |-> type, ret |-> ret]
NoMemo == [from |-> "none", value |-> NoValue]
Source(op, key, v) == [op |-> op, key |-> key, value |-> v]

\* a default-constructed card
InitCard == NoReader /\ NoTable /\ NoCard /\ NoHeaderUse /\ NoObjects /\ NoCall

Made(op, key, v, c) ==
    /\ card_' = c.card
    /\ clast' = CLast(op, c.outcome, key)
    /\ source' = IF c.outcome = "ok" THEN Source(op, key, v) ELSE source

\* c = card(fits_card): the new card, with nothing cached, takes the place of
\* the caller's card unless the constructor throws
CardFromText(fits_card) ==
    /\ Made("card", <<>>, NoValue, card(card_, fits_card))
    /\ cio' = CIO(NoValue, <<>>, fits_card, "", NoValue)
    /\ card_cache' = IF clast'.outcome = "ok" THEN [which |-> "blank"] ELSE card_cache
    /\ memo' = IF clast'.outcome = "ok" THEN NoMemo ELSE memo
    /\ UNCHANGED <<reader_vars, table_vars, header_vars, pure_vars, object_vars>>

\* c.create_card(key, value, comment)
CreateCard(key, v, comment) ==
    /\ Made("create_card", key, v, create_card(card_, key, v, comment))
    /\ cio' = CIO(v, comment, <<>>, "", NoValue)
    /\ UNCHANGED <<card_cache, memo, reader_vars, table_vars, header_vars, pure_vars, object_vars>>

\* c.create_commentary_card(key, value)
CreateCommentaryCard(key, text) ==
    /\ Made("create_commentary_card", key, NoValue, create_commentary_card(card_, key, text))
    /\ cio' = CIO(NoValue, <<>>, text, "", NoValue)
    /\ UNCHANGED <<card_cache, memo, reader_vars, table_vars, header_vars, pure_vars, object_vars>>

\* c.set_value(value)
SetValue(v) ==
    LET set(c) ==
            /\ card_' = c.card
            /\ card_cache' = c.cache
            /\ clast' = CLast("set_value", c.outcome, keyword(card_, FALSE))
            /\ memo' = IF c.outcome = "ok"
                       THEN [from |-> "set_value", value |-> v]
                       ELSE memo
            /\ source' = IF c.outcome = "ok"
                         THEN Source("set_value", keyword(card_, FALSE), v) ELSE source
    IN /\ set(set_value(card_, card_cache, v))
       /\ cio' = CIO(v, <<>>, <<>>, "", NoValue)
       /\ UNCHANGED <<reader_vars, table_vars, header_vars, pure_vars, object_vars>>

\* c.value<type>(); junk is the value of an uninitialized int
Value(type, junk) ==
    LET got(r) ==
            /\ card_cache' = r.cache
            /\ clast' = CLast("value", r.outcome, clast.key)
            /\ cio' = CIO(NoValue, <<>>, <<>>, type, r.ret)
            /\ memo' = IF r.outcome = "ok" /\ memo.from = "none"
                       THEN [from |-> "value", value |-> r.ret]
                       ELSE memo
    IN /\ got(value(card_, card_cache, type, junk))
       /\ UNCHANGED <<card_, source, reader_vars, table_vars, header_vars, pure_vars, object_vars>>

NextCard ==
    \/ \E fits_card \in RawTexts : CardFromText(fits_card)
    \/ \E key \in Keys, v \in CardValues, comment \in Comments :
          CreateCard(key, v, comment)
    \/ \E key \in Keys, text \in CommentaryTexts : CreateCommentaryCard(key, text)
    \/ \E v \in CardValues : SetValue(v)

SpecCard == InitCard /\ [][NextCard]_vars

\* a caller that writes a card and asks for its value: the keywords, values,
\* comments and texts it uses
ReadKeys == {KeyNaxis, KeyExposure}
ReadValues == {IntValue(3), IntValue(345), BoolValue(TRUE), StringValue(<<65, 65, Slash, 65>>)}
ReadComments == {<<>>, Letters(4)}
ReadTexts == {KeyExposure \o <<EQ, SP>>, create_card(<<>>, KeyNaxis, IntValue(3), <<>>).card}

NextCardValue ==
    \/ \E fits_card \in ReadTexts : CardFromText(fits_card)
    \/ \E key \in ReadKeys, v \in ReadValues, comment \in ReadComments :
          CreateCard(key, v, comment)
    \/ \E v \in ReadValues : SetValue(v)
    \/ \E type \in CardTypes, junk \in JunkBytes : Value(type, junk)

SpecCardValue == InitCard /\ [][NextCardValue]_vars
\* ------------------------------------------------------------------ properties of cards
\* the keyword field names a commentary card: COMMENT, HISTORY, END or blank
IsReserved(fits_card) ==
    keyword(fits_card, FALSE) \in {KeyComment, KeyHistory, KeyEnd, <<>>}

\* a card operation has succeeded
CardOperationDone ==
    /\ clast.op \in {"card", "create_card", "create_commentary_card", "set_value"}
    /\ clast.outcome = "ok"

\* C10: after a successful card operation the card's text is 80 bytes long,
\* holds the keyword in bytes 0-7 and, unless the keyword is reserved, "= "
\* in bytes 8-9
C10_CardInvariant ==
    CardOperationDone =>
        /\ Len(card_) = 80
        /\ clast.op \in {"create_card", "create_commentary_card"} =>
              SubSeq(card_, 1, 8) = format_keyword(clast.key)
        /\ ~IsReserved(card_) => SubSeq(card_, 9, 10) = <<EQ, SP>>

\* C11: value<T>() is memoized per card and the memo is replaced by
\* set_value: once value<T>() has returned a value it returns that value
\* again on every later call, and after a successful set_value(v) every
\* value<T>() (T the type of v) returns v, never the value memoized before
C11_ValueMemoized ==
    (clast.op = "value" /\ memo.from # "none" /\ cio.type = memo.value.kind) =>
        /\ clast.outcome = "ok"
        /\ cio.ret = memo.value

\* value<int>() has returned the 345 that set_value(345) stored
C11_ReplacedValueRead ==
    /\ clast.op = "value"
    /\ clast.outcome = "ok"
    /\ source = Source("set_value", KeyNaxis, IntValue(345))
    /\ memo = [from |-> "set_value", value |-> IntValue(345)]
    /\ cio.ret = IntValue(345)

\* the input of the last card operation violates the length contract: a key
\* of more than 8 characters, a value of more than 70 without a comment, a
\* value and comment of more than 68 together, a raw text of more than 80
LengthContractViolated ==
    CASE clast.op = "card" -> Len(cio.text) > 80
      [] clast.op = "create_card" ->
            ~is_card_valid_parts(clast.key, serialize_to_fits_format(cio.value), cio.comment)
      [] clast.op = "set_value" ->
            ~is_card_valid_parts(clast.key, serialize_to_fits_format(cio.value), <<>>)
      [] OTHER -> FALSE

\* C12: a card operation (construction from raw text, create_card,
\* set_value) whose input violates the length contract fails with an error
\* raised to the caller
C12_LengthViolationsRaise ==
    LengthContractViolated => clast.outcome \in {"invalid_card", "out_of_range", "length_error"}

\* C13: after create_card(key, value, comment) with inputs that satisfy the
\* length contract, keyword() returns key and value<T>() (T the type of
\* value) returns value
C13_CreateCardRoundTrip ==
    (clast.op = "value" /\ source.op = "create_card" /\ cio.type = source.value.kind) =>
        /\ keyword(card_, FALSE) = source.key
        /\ clast.outcome = "ok"
        /\ cio.ret = source.value

\* the text of the card parses as the type last asked for
ParsesAsAsked == \E junk \in JunkBytes : value_imp(card_, cio.type, junk).outcome = "ok"

\* C28: value<T>() of a card whose value text parses as T returns the
\* parsed T value, whatever type an earlier value<U>() or set_value gave
\* the memoized value
C28_TypeTransparent ==
    (clast.op = "value" /\ ParsesAsAsked) =>
        /\ clast.outcome = "ok"
        /\ \E junk \in JunkBytes : cio.ret = value_imp(card_, cio.type, junk).v
\* ------------------------------------------------------------------ a caller of a header
\* the files a caller reads a header from: well-formed headers of 6, 36 and
\* 37 cards, extension headers, each BITPIX value, and malformed headers
\* (BITPIX 64, no BITPIX, no NAXIS, no NAXIS1, NAXIS first and no NAXIS1, no END)
HeaderInputs ==
    << Primary16(6, SP),
       PrimaryEmpty(HeaderCards),
       Primary16(HeaderCards + 1, SP),
       BinTable,
       ImageExt,
       Hdu(PrimaryCards(8, <<2>>, 6), <<>>, SP),
       Hdu(PrimaryCards(32, <<2>>, 6), <<>>, SP),
       Hdu(PrimaryCards(-32, <<2>>, 6), <<>>, SP),
       Hdu(PrimaryCards(-64, <<2>>, 6), <<>>, SP),
       Hdu(PrimaryCards(64, <<2>>, 6), <<>>, SP),
       Hdu(<<CBool("SIMPLE", TRUE), CInt("NAXIS", 0), CEnd>>, <<>>, SP),
       Hdu(<<CBool("SIMPLE", TRUE), CInt("BITPIX", 8), CEnd>>, <<>>, SP),
       Hdu(<<CBool("SIMPLE", TRUE), CInt("BITPIX", 8), CInt("NAXIS", 1), CEnd>>, <<>>, SP),
       Hdu(<<CInt("NAXIS", 1), CBool("SIMPLE", TRUE), CInt("BITPIX", 8), CEnd>>, <<>>, SP),
       Hdu(<<CBool("SIMPLE", TRUE), CInt("BITPIX", 8), CInt("NAXIS", 0)>>, <<>>, SP) >>

HeaderFiles == [path \in 1..Len(HeaderInputs) |-> HduBytes(HeaderInputs[path])]

\* header h; h.read_header(file): [status, cards, bitpix, naxis].  When
\* read_header throws, the header keeps the cards read up to then
header_read(f) ==
    LET left(rh, rc) ==
            [status |-> rh.status, cards |-> IF rh.status = "ok" THEN rh.hdr.cards ELSE rc.cards,
             bitpix |-> rh.hdr.bitpix, naxis |-> rh.hdr.naxis]
    IN left(read_header(f, Stream(0, FALSE)), ReadCards(f, 0, <<>>))

InitHeader == NoReader /\ NoTable /\ NoCard /\ NoHeaderUse /\ NoObjects /\ NoCall

\* header h; h.read_header(file), the new header taking the place of the
\* caller's header; a read that meets no END card never returns
ReadHeader(path) ==
    LET read(h) ==
            /\ header_' = IF h.status = "diverged" THEN header_ ELSE h
            /\ hlast' = [op |-> "read_header", outcome |-> h.status, path |-> path]
    IN /\ hlast.outcome # "diverged"
       /\ read(header_read(HeaderFiles[path]))
       /\ UNCHANGED <<test_file, test_header, hwritten>>
       /\ UNCHANGED <<reader_vars, table_vars, card_vars, pure_vars, object_vars>>

\* test_file.create_file(path); h.write_header(test_file)
WriteHeader ==
    /\ hlast.outcome # "diverged"
    /\ test_file' = write_header(<<>>, header_)
    /\ hwritten' = header_
    /\ hlast' = [op |-> "write_header", outcome |-> "ok", path |-> 0]
    /\ UNCHANGED <<header_, test_header>>
    /\ UNCHANGED <<reader_vars, table_vars, card_vars, pure_vars, object_vars>>

\* test_file.set_file(path); header test_header; test_header.read_header(test_file)
ReadBack ==
    LET read(h) ==
            /\ test_header' = IF h.status = "diverged" THEN test_header ELSE h
            /\ hlast' = [op |-> "read_back", outcome |-> h.status, path |-> 0]
    IN /\ hlast.outcome # "diverged"
       /\ hwritten.status # "none" \/ test_file # <<>>
       /\ read(header_read(test_file))
       /\ UNCHANGED <<header_, test_file, hwritten>>
       /\ UNCHANGED <<reader_vars, table_vars, card_vars, pure_vars, object_vars>>

NextHeader ==
    \/ \E path \in 1..Len(HeaderFiles) : ReadHeader(path)
    \/ WriteHeader
    \/ ReadBack

SpecHeader == InitHeader /\ [][NextHeader]_vars
CardsRead == HeaderInputs[hlast.path].cards
HasKeyword(cards, key) == \E j \in 1..Len(cards) : cards[j].key = key
ValueOf(cards, key) == cards[CHOOSE j \in 1..Len(cards) : cards[j].key = key].i

\* BITPIX, NAXIS and NAXIS1..NAXISn are present and BITPIX is 8, 16, 32, -32 or -64
Structural(cards) ==
    /\ HasKeyword(cards, "BITPIX")
    /\ ValueOf(cards, "BITPIX") \in {8, 16, 32, -32, -64}
    /\ HasKeyword(cards, "NAXIS")
    /\ \A i \in 1..ValueOf(cards, "NAXIS") : HasKeyword(cards, NaxisKey(i))

\* C18: read_header resolves BITPIX 8, 16, 32, -32 and -64 to the element
\* kind of that value, and fails with an error on a header whose BITPIX has
\* another value or that lacks BITPIX, NAXIS or one of NAXIS1..NAXISn
C18_StructuralErrors ==
    hlast.op = "read_header" =>
        /\ hlast.outcome = "ok" => header_.bitpix = BitpixOf(ValueOf(CardsRead, "BITPIX"))
        /\ Structural(CardsRead) /\ HasKeyword(CardsRead, "END") => hlast.outcome = "ok"
        /\ ~Structural(CardsRead) => hlast.outcome = "throw"
\* ------------------------------------------------------------------ binary_data_converter
\* the element types of a binary table, and the width of each in bytes.
\* A float is modelled by its bit pattern, so a complex number is a pair of
\* 32-bit patterns
ElementTypes == {"logical", "byte", "char", "int16", "int32", "descriptor", "complex"}

Width(type) ==
    CASE type \in {"logical", "byte", "char"} -> 1
      [] type = "int16" -> 2
      [] type = "int32" -> 4
      [] OTHER -> 8

\* a value is a sequence of elements and an element a sequence of integers:
\* one integer for a number, 1 or 0 for a logical, two for a pair
Logical(b) == <<IF b THEN 1 ELSE 0>>

\* binary_data_converter::serialize of one element
serialize_element(type, x) ==
    CASE type = "logical" -> <<IF x = Logical(TRUE) THEN 84 ELSE 70>>
      [] type \in {"byte", "char", "int16", "int32"} -> serialize_numeric(x[1], Width(type))
      [] OTHER -> serialize_numeric(x[1], 4) \o serialize_numeric(x[2], 4)

\* binary_data_converter::serialize(data), for an element and for a vector
binary_serialize(type, vector, data) ==
    IF vector THEN Flatten([j \in 1..Len(data) |-> serialize_element(type, data[j])])
    ELSE serialize_element(type, data[1])

\* the int32 at index k of the array the bytes are cast to
Int32At(elements, k) == element_to_numeric(SubSeq(elements, 4 * k + 1, 4 * k + 4))

\* binary_data_converter::deserialize_to<T>(element, n), T an element type:
\* [outcome, v].  lexical_cast gives the one character of the string and
\* throws on any other length
deserialize_element(type, element) ==
    CASE type = "logical" ->
            [outcome |-> "ok", v |-> <<Logical(element # <<>> /\ element[1] = 84)>>]
      [] type \in {"byte", "char"} ->
            IF Len(element) = 1 THEN [outcome |-> "ok", v |-> <<element>>]
            ELSE [outcome |-> "bad_lexical_cast", v |-> <<>>]
      [] type \in {"int16", "int32"} ->
            [outcome |-> "ok", v |-> << <<element_to_numeric(SubSeq(element, 1, Width(type)))>> >>]
      [] OTHER -> [outcome |-> "ok", v |-> << <<Int32At(element, 0), Int32At(element, 1)>> >>]

\* binary_data_converter::deserialize_to<std::vector<T>>(elements, num_elements)
deserialize_vector(type, elements, num_elements) ==
    CASE type = "logical" -> [j \in 1..Len(elements) |-> Logical(elements[j] = 84)]
      [] type \in {"byte", "char"} -> [j \in 1..num_elements |-> <<elements[j]>>]
      [] type \in {"int16", "int32"} ->
            [j \in 1..num_elements |->
                <<element_to_numeric(SubSeq(elements, Width(type) * (j - 1) + 1,
                                            Width(type) * j))>>]
      [] type = "descriptor" ->
            [j \in 1..num_elements |-> <<Int32At(elements, j - 1), Int32At(elements, j)>>]
      [] OTHER ->
            [j \in 1..num_elements |->
                <<Int32At(elements, 2 * (j - 1)), Int32At(elements, 2 * (j - 1) + 1)>>]

\* binary_data_converter::deserialize_to, for an element and for a vector
binary_deserialize_to(type, vector, elements, num_elements) ==
    IF vector THEN [outcome |-> "ok", v |-> deserialize_vector(type, elements, num_elements)]
    ELSE deserialize_element(type, elements)

\* ------------------------------------------------------------------ a caller of the converter
\* the values and the byte runs a caller converts
ElementValues(type) ==
    CASE type = "logical" -> {Logical(TRUE), Logical(FALSE)}
      [] type \in {"byte", "char"} -> {<<0>>, <<65>>, <<255>>}
      [] type = "int16" -> {<<0>>, <<7>>, <<258>>, <<-1>>}
      [] type = "int32" -> {<<0>>, <<345>>, <<16909060>>, <<-1>>}
      [] OTHER -> {<<1, 2>>, <<3, 4>>, <<-1, 7>>}

MaxElements == 2

VectorValues(type) ==
    UNION {[1..n -> ElementValues(type)] : n \in 0..MaxElements}

ByteRuns(n) ==
    {[j \in 1..n |-> b] : b \in {0, 70, 84, 255}} \cup {[j \in 1..n |-> j]}

Convert(fn, type, vector, v, bytes, n) ==
    [fn |-> fn, type |-> type, vector |-> vector, value |-> v, bytes |-> bytes, n |-> n]

ConverterInputs ==
    UNION {{Convert("value", type, FALSE, <<x>>, <<>>, 1) : x \in ElementValues(type)}
           \cup {Convert("value", type, TRUE, x, <<>>, Len(x)) : x \in VectorValues(type)}
           \cup {Convert("bytes", type, FALSE, <<>>, bs, 1) : bs \in ByteRuns(Width(type))}
           \cup UNION {{Convert("bytes", type, TRUE, <<>>, bs, n) :
                           bs \in ByteRuns(Width(type) * n)} : n \in 0..MaxElements} :
           type \in ElementTypes}

NoOutput == [fn |-> "none", outcome |-> "ok", of |-> "none", value |-> <<>>, bytes |-> <<>>]

\* a value or a byte run to convert there and back
InitConverter ==
    /\ NoReader /\ NoTable /\ NoCard /\ NoHeaderUse /\ NoObjects
    /\ input \in ConverterInputs
    /\ output = NoOutput

\* serialize(x), of the caller's value or of the value deserialize_to gave
Serialize ==
    LET given(data) ==
            output' = [fn |-> "serialize", outcome |-> "ok", of |-> output.fn, value |-> <<>>,
                       bytes |-> binary_serialize(input.type, input.vector, data)]
    IN /\ \/ input.fn = "value" /\ output.fn = "none" /\ given(input.value)
          \/ input.fn = "bytes" /\ output.fn = "deserialize_to" /\ output.outcome = "ok"
             /\ given(output.value)
       /\ UNCHANGED <<input, reader_vars, table_vars, card_vars, header_vars, object_vars>>

\* deserialize_to<T>(bytes, n), of the caller's bytes or of the bytes serialize gave
Deserialize ==
    LET got(r) ==
            output' = [fn |-> "deserialize_to", outcome |-> r.outcome, of |-> output.fn,
                       value |-> r.v, bytes |-> <<>>]
        given(elements) ==
            got(binary_deserialize_to(input.type, input.vector, elements, input.n))
    IN /\ \/ input.fn = "bytes" /\ output.fn = "none" /\ given(input.bytes)
          \/ input.fn = "value" /\ output.fn = "serialize" /\ given(output.bytes)
       /\ UNCHANGED <<input, reader_vars, table_vars, card_vars, header_vars, object_vars>>

NextConverter == Serialize \/ Deserialize

SpecConverter == InitConverter /\ [][NextConverter]_vars
\* ------------------------------------------------------------------ properties of the converter
\* C15: for every element type and vector of it, deserialize_to(serialize(x))
\* is x for every value x, and serialize(deserialize_to(bytes)) is bytes for
\* every byte run of the type's width times the element count
C15_ConverterRoundTrip ==
    output.of # "none" =>
        /\ output.outcome = "ok"
        /\ output.value = input.value
        /\ output.bytes = input.bytes
\* ------------------------------------------------------------------ a caller of an image
\* the integer pixel kinds and the data buffers a caller reads an image from:
\* up to MaxElements pixels, and whole records of zeros and of spaces
PixelKinds == {"B8", "B16", "B32"}

ImageBuffers(bp) ==
    UNION {{Bytes(bs) : bs \in ByteRuns(get_element_size_from_bitpix(bp) * n)} :
           n \in 0..MaxElements}
    \cup {Fill(NUL, MaxRecords * logical_record_size), Fill(SP, MaxRecords * logical_record_size)}

ImageInputs ==
    UNION {{[fn |-> "image", bitpix |-> bp, bytes |-> data_buffer] :
               data_buffer \in ImageBuffers(bp)} : bp \in PixelKinds}

\* an image<bitpix> and a data buffer
InitImage ==
    /\ NoReader /\ NoTable /\ NoCard /\ NoHeaderUse /\ NoObjects
    /\ input \in ImageInputs
    /\ output = NoOutput

\* img.read_image(data_buffer)
ReadImage ==
    /\ output.fn = "none"
    /\ output' = [fn |-> "read_image", outcome |-> "ok", of |-> "none",
                  value |-> read_image(input.bytes, input.bitpix), bytes |-> <<>>]
    /\ UNCHANGED <<input, reader_vars, table_vars, card_vars, header_vars, object_vars>>

\* img.write_image()
WriteImage ==
    /\ output.fn = "read_image"
    /\ output' = [fn |-> "write_image", outcome |-> "ok", of |-> "read_image",
                  value |-> output.value,
                  bytes |-> write_image(output.value,
                                        get_element_size_from_bitpix(input.bitpix))]
    /\ UNCHANGED <<input, reader_vars, table_vars, card_vars, header_vars, object_vars>>

NextImage == ReadImage \/ WriteImage

SpecImage == InitImage /\ [][NextImage]_vars

\* ------------------------------------------------------------------ properties of images
\* C16: for BITPIX 8, 16 and 32 and a buffer of a whole number of elements,
\* write_image after read_image(buffer) returns exactly buffer, and the
\* empty string for an empty buffer
C16_ImageRoundTrip ==
    output.fn = "write_image" => output.bytes = input.bytes
\* ------------------------------------------------------------------ a caller of is_card_valid
\* the keyword fields, the bytes 8-9 and the lengths of the rest of the raw
\* texts a caller validates, and texts of fewer than 10 characters
KeyComments == KeyComment \o <<83>>

KeywordFields ==
    {Spaces(8), format_keyword(KeyComment), format_keyword(KeyHistory), format_keyword(KeyEnd),
     format_keyword(KeyNaxis), KeyExposure, KeyComments}

RawCards ==
    {field \o indicator \o Letters(n) :
        field \in KeywordFields, indicator \in {<<EQ, SP>>, <<SP, SP>>, <<EQ, 65>>},
        n \in {0, CardSize - 10, CardSize - 9}}
    \cup KeywordFields
    \cup {<<>>, KeyEnd, KeyComment, KeyNaxis, Spaces(3), KeyExposure \o <<EQ>>}

InitCardValid ==
    /\ NoReader /\ NoTable /\ NoCard /\ NoHeaderUse /\ NoObjects
    /\ input \in {[fn |-> "is_card_valid", text |-> fits_card] : fits_card \in RawCards}
    /\ output = NoOutput

\* policy.is_card_valid(fits_card)
IsCardValid ==
    /\ output.fn = "none"
    /\ output' = [fn |-> "is_card_valid",
                  outcome |-> IF is_card_valid_throws(input.text) THEN "out_of_range" ELSE "ok",
                  of |-> "none",
                  value |-> IF is_card_valid_throws(input.text) THEN <<>>
                            ELSE Logical(is_card_valid(input.text)),
                  bytes |-> <<>>]
    /\ UNCHANGED <<input, reader_vars, table_vars, card_vars, header_vars, object_vars>>

NextCardValid == IsCardValid

SpecCardValid == InitCardValid /\ [][NextCardValid]_vars

\* ------------------------------------------------------------------ properties of is_card_valid
\* the keyword field, bytes 0-7 of the text, without its padding
KeywordField(fits_card) == TrimBytes(Substr(fits_card, 0, 8))

\* C17: is_card_valid(raw) returns a boolean for every raw, and returns true
\* exactly when raw is at most 80 long and bytes 8-9 are "= ", or the keyword
\* field is COMMENT, HISTORY or END, or the keyword field is blank
C17_CardValidity ==
    output.fn = "is_card_valid" =>
        /\ output.outcome = "ok"
        /\ output.value =
              Logical(/\ Len(input.text) <= 80
                      /\ \/ Substr(input.text, 8, 2) = <<EQ, SP>>
                         \/ KeywordField(input.text) \in {KeyComment, KeyHistory, KeyEnd}
                         \/ KeywordField(input.text) = <<>>)
\* ------------------------------------------------------------------ a caller of construct_hdu
\* the HDUs a caller builds: primary HDUs, tables, extensions with other
\* names, and headers that lack EXTEND, TFIELDS, or both SIMPLE and XTENSION
HduInputs ==
    << Primary16(6, SP),
       PrimaryEmpty(HeaderCards),
       PrimaryRecord(1),
       Hdu(PrimaryCards(32, <<1>>, 6), Bytes(<<0, 0, 1, 2>>), NUL),
       BinTable,
       BinTableDense,
       AsciiTable,
       AsciiTableDense,
       ImageExt,
       Hdu(ImageCards(<<>>), <<>>, NUL),
       Hdu(<<CStr("XTENSION", "table"), CInt("BITPIX", 8), CInt("NAXIS", 0), CEnd>>, <<>>, NUL),
       Hdu(<<CStr("XTENSION", "A3DTABLE"), CInt("BITPIX", 8), CInt("NAXIS", 1),
             CInt("NAXIS1", 2), CEnd>>, Bytes(<<7, 8>>), NUL),
       Hdu(<<CStr("XTENSION", ""), CInt("BITPIX", 8), CInt("NAXIS", 0), CEnd>>, <<>>, NUL),
       Hdu(<<CInt("BITPIX", 8), CInt("NAXIS", 0), CBool("SIMPLE", TRUE),
             CBool("EXTEND", FALSE), CEnd>>, <<>>, NUL),
       Hdu(<<CBool("SIMPLE", TRUE), CInt("BITPIX", 8), CInt("NAXIS", 0), CEnd>>, <<>>, NUL),
       Hdu(<<CStr("XTENSION", "BINTABLE"), CInt("BITPIX", 8), CInt("NAXIS", 0), CEnd>>,
           <<>>, NUL),
       Hdu(<<CInt("BITPIX", 8), CInt("NAXIS", 0), CEnd>>, <<>>, NUL),
       Hdu(<<CBool("SIMPLE", TRUE), CStr("XTENSION", "TABLE"), CInt("BITPIX", 8),
             CInt("NAXIS", 0), CBool("EXTEND", TRUE), CEnd>>, <<>>, NUL) >>

HduFiles == [path \in 1..Len(HduInputs) |-> HduBytes(HduInputs[path])]

\* the files write_to finds already written: nothing, a record of spaces,
\* a primary HDU
WrittenBefore == {<<>>, Fill(SP, logical_record_size), HduBytes(PrimaryEmpty(5))}

NoHdu == [fn |-> "none", outcome |-> "ok", hdu |-> EmptyHdu, bytes |-> <<>>]

InitHdu ==
    /\ NoReader /\ NoTable /\ NoCard /\ NoHeaderUse /\ NoObjects
    /\ input = [fn |-> "none", path |-> 0, entire |-> FALSE, out |-> <<>>]
    /\ output = NoHdu

\* header h; h.read_header(file); construct_hdu(h, data), the data being
\* the data buffer of the HDU or, as in read_only_headers, empty
ConstructHdu(path, entire) ==
    LET built(r) ==
            output' = [fn |-> "construct_hdu", outcome |-> IF r.ok THEN "ok" ELSE "throw",
                       hdu |-> r.hdu, bytes |-> <<>>]
        construct(eh) ==
            /\ eh.status = "ok"
            /\ built(construct_hdu(eh.hdr,
                                   IF entire
                                   THEN extract_data_buffer(HduFiles[path], eh.st, eh.hdr).data
                                   ELSE <<>>))
    IN /\ construct(extract_header(HduFiles[path], Stream(0, FALSE)))
       /\ input' = [fn |-> "construct_hdu", path |-> path, entire |-> entire, out |-> <<>>]
       /\ UNCHANGED <<reader_vars, table_vars, card_vars, header_vars, object_vars>>

\* boost::apply_visitor(fits_writer_visitor(file_writer), hdu) for the HDU
\* construct_hdu returned, the file holding the bytes of out already
WriteHdu(out) ==
    LET visited(w) ==
            output' = [fn |-> "write_to", outcome |-> IF w.ok THEN "ok" ELSE "throw",
                       hdu |-> output.hdu, bytes |-> w.out]
    IN /\ output.fn = "construct_hdu"
       /\ output.outcome = "ok"
       /\ visited(hdu_write_to(out, output.hdu))
       /\ input' = [input EXCEPT !.fn = "write_to", !.out = out]
       /\ UNCHANGED <<reader_vars, table_vars, card_vars, header_vars, object_vars>>

NextHdu ==
    \/ \E path \in 1..Len(HduInputs), entire \in BOOLEAN : ConstructHdu(path, entire)
    \/ \E out \in WrittenBefore : WriteHdu(out)

SpecHdu == InitHdu /\ [][NextHdu]_vars

\* ------------------------------------------------------------------ properties of construct_hdu
\* the cards of the header given to construct_hdu, and the kind of HDU the
\* dispatch on SIMPLE and XTENSION names for it
CardsGiven == HduInputs[input.path].cards
StringOf(cards, key) == cards[CHOOSE j \in 1..Len(cards) : cards[j].key = key].s
Dispatched(cards) ==
    IF HasKeyword(cards, "SIMPLE") THEN "primary"
    ELSE IF StringOf(cards, "XTENSION") = "TABLE" THEN "ascii"
    ELSE IF StringOf(cards, "XTENSION") = "BINTABLE" THEN "bintable"
    ELSE "blank"

C19_TableBuilt ==
    /\ input.fn = "construct_hdu" /\ input.entire
    /\ output.outcome = "ok"
    /\ output.hdu.variant = "ascii"
    /\ output.hdu.tb_data # <<>>
\* ------------------------------------------------------------------ random access
\* the indexes and names a caller asks for
Indexes == -1..3
HduNames == {"primary_hdu", "BINTABLE", "EVENTS", "test_hdu"}

\* fits_io::operator[](const std::string&): hdus_info.at(hdu_name), then
\* hdu_list[hdu_index] without a bounds check: the outcomes it can have.
\* An hdu_index past the end of hdu_list is undefined behaviour: the call
\* crashes or returns whatever lies there
at_name(m, hdus, hdu_name) ==
    IF hdu_name \notin DOMAIN m THEN {[outcome |-> "out_of_range", hdu |-> EmptyHdu]}
    ELSE IF m[hdu_name].hdu_index < Len(hdus)
         THEN {[outcome |-> "ok", hdu |-> hdus[m[hdu_name].hdu_index + 1]]}
         ELSE {[outcome |-> "crash", hdu |-> EmptyHdu], [outcome |-> "ok", hdu |-> EmptyHdu]}

\* the HDUs scanned since initialize: those that hdu_list holds from the
\* place of the primary HDU of the open file on
ScannedCount ==
    IF "primary_hdu" \in DOMAIN hdus_info
    THEN Len(hdu_list) - hdus_info["primary_hdu"].hdu_index ELSE 0

Accessed(fn, index, hdu_name, outcome, variant) ==
    [fn |-> fn, outcome |-> outcome, index |-> index, name |-> hdu_name,
     count |-> ScannedCount, known |-> hdu_name \in DOMAIN hdus_info,
     variant |-> variant]

InitAccess ==
    /\ NoReader /\ NoTable /\ NoCard /\ NoHeaderUse /\ NoObjects
    /\ input = [fn |-> "none"]
    /\ output = [fn |-> "none", outcome |-> "ok", index |-> 0, name |-> "", count |-> 0,
                 known |-> FALSE, variant |-> "none"]

\* reader[index]
AtIndex(index) ==
    LET got(r) ==
            output' = Accessed("index", index, "",
                               IF r.ok THEN "ok" ELSE "out_of_range",
                               IF r.ok THEN r.hdu.variant ELSE "none")
    IN /\ pc = "open"
       /\ got(at(hdu_list, index))
       /\ UNCHANGED <<input, reader_vars, table_vars, card_vars, header_vars, object_vars>>

\* reader[hdu_name]
AtName(hdu_name) ==
    /\ pc = "open"
    /\ \E r \in at_name(hdus_info, hdu_list, hdu_name) :
          output' = Accessed("name", 0, hdu_name, r.outcome,
                             IF r.outcome = "ok" THEN r.hdu.variant ELSE "none")
    /\ UNCHANGED <<input, reader_vars, table_vars, card_vars, header_vars, object_vars>>

NextAccess ==
    \/ \E p \in Paths : initialize(p)
    \/ ReadOnlyHeaders
    \/ ReadEntireHdus
    \/ \E index \in Indexes : AtIndex(index)
    \/ \E hdu_name \in HduNames : AtName(hdu_name)

SpecAccess == InitAccess /\ [][NextAccess]_vars

\* ------------------------------------------------------------------ properties of random access
\* C20: reader[index] with an index outside 0..count-1, count being the
\* number of HDUs scanned from the open file, raises an out-of-range error and
\* returns no HDU, and reader[name] with a name the control block has no
\* entry for raises a not-found error and returns no HDU
C20_NoHduIdentified ==
    /\ (output.fn = "index" /\ output.index \notin 0..(output.count - 1)) =>
           (output.outcome = "out_of_range" /\ output.variant = "none")
    /\ (output.fn = "name" /\ ~output.known) =>
           (output.outcome = "out_of_range" /\ output.variant = "none")
\* ------------------------------------------------------------------ opening a file
\* a path at which there is no file
NoFilePath == 0

\* set_file that opens whatever path it is given
set_file_opening_any(p) == TRUE

\* fits_stream::set_file(path): close, clear, open; the stream is good
\* when there is a file at the path, file_reading_exception otherwise
set_file(p) == p \in Paths

\* reader.initialize(filepath) for any path: when set_file throws, the
\* stream is left closed with failbit set and nothing else has been touched
InitializeAt(p) ==
    \/ /\ set_file(p)
       /\ initialize(p)
    \/ /\ ~set_file(p)
       /\ pc # "diverged"
       /\ inits < MaxInits
       /\ file_reader' = Stream(0, TRUE)
       /\ opened' = NoFilePath
       /\ pc' = "closed"
       /\ last' = Last("initialize", "", "file_reading_exception", FALSE)
       /\ inits' = inits + 1
       /\ UNCHANGED <<filepath, hdus_info, hdu_list, written, base>>
       /\ UNCHANGED <<table_vars, card_vars, header_vars, pure_vars, object_vars>>

NextOpen ==
    \/ \E p \in Paths \cup {NoFilePath} : InitializeAt(p)
    \/ ReadOnlyHeaders
    \/ ReadEntireHdus
    \/ WriteTo

SpecOpen == Init /\ [][NextOpen]_vars

\* C22: initialize(path) on a path that cannot be opened raises
\* file_reading_exception (a reader is never open on such a path, and the
\* path is not stored), and the call leaves the HDU list and the control
\* block as they were
C22_OpenFailure ==
    /\ [](pc = "open" => opened \in Paths /\ filepath = opened)
    /\ [](last.op = "initialize" /\ last.outcome = "ok" => filepath \in Paths)
    /\ [][(last'.op = "initialize" /\ last'.outcome = "file_reading_exception") =>
              (hdu_list' = hdu_list /\ hdus_info' = hdus_info /\ filepath' = filepath)]_vars

\* C22, witness: initialize failed on a reader that holds scanned HDUs
C22_FailedAfterScan ==
    /\ last.op = "initialize"
    /\ last.outcome = "file_reading_exception"
    /\ pc = "closed"
    /\ Len(hdu_list) = 3
    /\ DOMAIN hdus_info = {"primary_hdu", "TABLE", "IMAGE"}
\* ------------------------------------------------------------------ properties of scans and of the record boundary
\* C23: read_only_headers() and read_entire_hdus() return or raise an
\* error on every file: no scan goes on reading cards for ever
C23_ScansTerminate ==
    last.op \in {"scan", "write"} => last.outcome \in {"ok", "throw"}

\* the smallest multiple of logical_record_size that is not below n
RecordBoundary(n) ==
    ((n + logical_record_size - 1) \div logical_record_size) * logical_record_size

\* C24: write_header pads the file to the smallest multiple of 2880 that
\* is greater than or equal to the length of the cards written, so a
\* header that ends on a record boundary is followed by no padding
C24_NoExtraRecord ==
    hlast.op = "write_header" => Size(test_file) = RecordBoundary(Size(hwritten.cards))
\* ------------------------------------------------------------------ replacing the data of a table HDU
\* the data buffers callers replace a table's data with: one for each
\* table's row length and row count
ReplacementBuffers ==
    { Bytes(<<0, 9, 69, 70, 1, 3, 71, 72>>),
      Bytes(<<32, 53, 54, 32, 55, 56, 32, 57, 48, 32, 49, 50>>),
      Bytes(<<32, 53, 54, 55, 56, 32, 57, 48, 49, 50>>) }

\* basic_{binary,ascii}_table::set_data(data_buffer): the column metadata
\* built anew from the header, and the row matrix built from the buffer
\* (left as it is for an empty buffer); cached_columns is not touched
set_data(t, data_buffer) ==
    LET populated(columns) ==
            [t EXCEPT !.col_metadata = columns.cols,
                      !.tb_data = IF data_buffer = <<>> THEN @
                                  ELSE set_table_data(t.header, IsAscii(t), columns.cols, t.tfields,
                                                      data_buffer)]
    IN populated(populate_column_data(t.header.cards, IsAscii(t), t.tfields, 1, 0))

\* hdu.set_data(data_buffer) with a buffer of NAXIS1 * NAXIS2 bytes
SetData(data_buffer) ==
    /\ tpc = "ready"
    /\ Size(data_buffer) = table.header.naxis[1] * table.header.naxis[2]
    /\ table' = set_data(table, data_buffer)
    /\ tlast' = TLast("set_data", "", 0, 0, "ok", 0, FALSE, 0, <<>>)
    /\ wrote' = <<>>
    /\ again' = {}
    /\ UNCHANGED <<cached_columns, made, tpc, reader_vars, card_vars, header_vars, pure_vars, object_vars>>

\* callers that ask for the first column of a table as 16-bit integers,
\* read and write its rows and replace the table's data
NextSetData ==
    \/ \E column_name \in {"ID", "N"} : GetColumn(column_name, "int16")
    \/ \E column_name \in {"ID", "N"}, row \in 0..(MaxRows - 1) : ViewRead(column_name, row)
    \/ \E column_name \in {"ID", "N"}, row \in 0..(MaxRows - 1) : ViewWrite(column_name, row, 7)
    \/ \E data_buffer \in ReplacementBuffers : SetData(data_buffer)

SpecSetData == InitTable /\ [][NextSetData]_vars

\* C26: a read through the view get_column returns gives the value
\* decoded from the cell of the row matrix as set_data built it from the
\* latest buffer, for every cell not written through a view since then
C26_ReadsNewData ==
    (/\ tlast.op = "read" /\ tlast.outcome = "ok"
     /\ <<tlast.name, tlast.row>> \notin DOMAIN wrote) =>
        \E junk \in JunkBytes :
            tlast.ret = deserialize_to(IsAscii(table), cached_columns[tlast.name].type,
                                       table.tb_data[tlast.row + 1]
                                                    [cached_columns[tlast.name].column.index],
                                       junk).v
\* ------------------------------------------------------------------ copies of a table HDU
\* how many table HDU objects a caller creates: the first is constructed
\* from a header and data, the others are copies
MaxObjects == 3

Unused ==
    [status |-> "unused", table |-> EmptyHdu, cached_columns |-> <<>>, table_ref |-> <<>>,
     made |-> 0]

\* a table HDU as its constructor leaves it: no views cached
Constructed(t) == [Unused EXCEPT !.status = "alive", !.table = t]

OLast(op, outcome, object, column_name, target) ==
    [op |-> op, outcome |-> outcome, object |-> object, name |-> column_name,
     target |-> target]

InitObjects ==
    /\ NoReader /\ NoTable /\ NoCard /\ NoHeaderUse /\ NoCall
    /\ \E h \in {BinTableDense, AsciiTableDense} :
          objects = [o \in 1..MaxObjects |-> IF o = 1 THEN Constructed(TableOf(h)) ELSE Unused]
    /\ olast = OLast("none", "ok", 0, "", 0)

\* no access through a dangling view has happened
Defined == olast.outcome # "undefined"

\* objects[o].get_column<type>(column_name); make_column_view gives a new
\* view the address of this object's tb_data
GetColumnOf(o, column_name, type) ==
    LET got(g) ==
            /\ objects' = [objects EXCEPT
                             ![o].cached_columns = g.cached_columns,
                             ![o].made = g.made,
                             ![o].table_ref =
                                 IF column_name \in DOMAIN g.cached_columns
                                    /\ column_name \notin DOMAIN objects[o].cached_columns
                                 THEN Assign(@, column_name, o) ELSE @]
            /\ olast' = OLast("get_column", g.outcome, o, column_name, 0)
    IN /\ Defined
       /\ objects[o].status = "alive"
       /\ got(get_column(objects[o].table, objects[o].cached_columns, objects[o].made,
                         column_name, type))
       /\ UNCHANGED <<reader_vars, table_vars, card_vars, header_vars, pure_vars>>

\* the implicit copy constructor: a new object whose members are copies of
\* those of objects[o], the views' table_ref pointers among them (a copy
\* of the HDU, of the variant that holds it, or of the HDU list)
CopyObject(o, n) ==
    /\ Defined
    /\ objects[o].status = "alive"
    /\ objects[n].status = "unused"
    /\ \A k \in 1..(n - 1) : objects[k].status # "unused"
    /\ objects' = [objects EXCEPT ![n] = objects[o]]
    /\ olast' = OLast("copy", "ok", n, "", o)
    /\ UNCHANGED <<reader_vars, table_vars, card_vars, header_vars, pure_vars>>

\* the end of an object's lifetime: a local goes out of scope, or the HDU
\* list reallocates after its elements were copied to the new storage
DestroyObject(o) ==
    /\ Defined
    /\ objects[o].status = "alive"
    /\ objects' = [objects EXCEPT ![o] = [Unused EXCEPT !.status = "destroyed"]]
    /\ olast' = OLast("destroy", "ok", o, "", 0)
    /\ UNCHANGED <<reader_vars, table_vars, card_vars, header_vars, pure_vars>>

\* an access through a view whose table_ref points to an object that no
\* longer exists: undefined
Dangling(op, o, column_name) ==
    /\ olast' = OLast(op, "undefined", o, column_name, objects[o].table_ref[column_name])
    /\ UNCHANGED objects

\* value = view[row], through the view objects[o].get_column returns
ViewReadOf(o, column_name, row) ==
    LET read(target, r) ==
            /\ objects' = [objects EXCEPT ![o].cached_columns[column_name] = r.view]
            /\ olast' = OLast("read", r.outcome, o, column_name, target)
        through(target) ==
            IF objects[target].status # "alive" THEN Dangling("read", o, column_name)
            ELSE /\ row < Len(objects[target].table.tb_data)
                 /\ \E junk \in JunkBytes :
                       read(target, view_at(IsAscii(objects[o].table),
                                            objects[o].cached_columns[column_name],
                                            objects[target].table.tb_data, row, junk))
    IN /\ Defined
       /\ objects[o].status = "alive"
       /\ column_name \in DOMAIN objects[o].cached_columns
       /\ through(objects[o].table_ref[column_name])
       /\ UNCHANGED <<reader_vars, table_vars, card_vars, header_vars, pure_vars>>

\* view[row] = v, through the view objects[o].get_column returns
ViewWriteOf(o, column_name, row, v) ==
    LET written_to(target, u) ==
            /\ objects' = [k \in 1..MaxObjects |->
                             [objects[k] EXCEPT
                                !.cached_columns =
                                    IF k = o THEN [@ EXCEPT ![column_name] = u.view] ELSE @,
                                !.table =
                                    IF k = target THEN [@ EXCEPT !.tb_data = u.tb_data] ELSE @]]
            /\ olast' = OLast("write", "ok", o, column_name, target)
        through(target) ==
            IF objects[target].status # "alive" THEN Dangling("write", o, column_name)
            ELSE /\ row < Len(objects[target].table.tb_data)
                 /\ written_to(target,
                               update_value(IsAscii(objects[o].table),
                                            objects[o].cached_columns[column_name],
                                            objects[target].table.tb_data, row, v))
    IN /\ Defined
       /\ objects[o].status = "alive"
       /\ column_name \in DOMAIN objects[o].cached_columns
       /\ through(objects[o].table_ref[column_name])
       /\ UNCHANGED <<reader_vars, table_vars, card_vars, header_vars, pure_vars>>

NextObjects ==
    \/ \E o \in 1..MaxObjects, column_name \in {"ID", "N"} : GetColumnOf(o, column_name, "int16")
    \/ \E o \in 1..MaxObjects, n \in 1..MaxObjects : CopyObject(o, n)
    \/ \E o \in 1..MaxObjects : DestroyObject(o)
    \/ \E o \in 1..MaxObjects, column_name \in {"ID", "N"}, row \in 0..(MaxRows - 1) :
          ViewReadOf(o, column_name, row)
    \/ \E o \in 1..MaxObjects, column_name \in {"ID", "N"}, row \in 0..(MaxRows - 1) :
          ViewWriteOf(o, column_name, row, 7)

SpecObjects == InitObjects /\ [][NextObjects]_vars

\* C25: every view in the cache of a table HDU points to that HDU's own
\* row matrix, and every read and write through a view reaches the row
\* matrix of the HDU the view was obtained from, which exists
C25_ViewsOfOwnMatrix ==
    /\ \A o \in DOMAIN objects :
          objects[o].status = "alive" =>
              \A column_name \in DOMAIN objects[o].cached_columns :
                  objects[o].table_ref[column_name] = o
    /\ olast.op \in {"read", "write"} =>
          (olast.outcome # "undefined" /\ olast.target = olast.object)
====
